---- MODULE Spec2Model ----
(***************************************************************************)
(* A model of the Parkinson's assessment dashboard: the typed REST client  *)
(* (services/api.ts), the patient list, patient form, patient details,     *)
(* test selection, video recording and video summary pages and the router  *)
(* (App.tsx).                                                              *)
(*                                                                         *)
(* JavaScript strings that the code computes with are sequences of         *)
(* one-character strings, so that trim, split, join, toLowerCase, the      *)
(* digit filter and JSON.parse are computed and not assumed.  Titles of    *)
(* notifications, HTTP methods and names of handlers are plain strings.    *)
(*                                                                         *)
(* One step of the model is one task of the browser's event loop: a        *)
(* handler runs from its start to its first await that waits for the       *)
(* network, and the continuation after the await is a later step that      *)
(* takes the reply.  The variables out, toastOut and navOut hold what the  *)
(* last step sent, notified and navigated to; lastOp names that step.      *)
(*                                                                         *)
(* A handler may run whenever the element that carries it is rendered.     *)
(* Where an attribute of the element (required, disabled) repeats a check  *)
(* that the handler makes itself, the model leaves the check to the        *)
(* handler; where the attribute is the only gate (disabled={loading}), it  *)
(* is a guard of the action.                                               *)
(*                                                                         *)
(* When the router unmounts a page, the continuations of that page are     *)
(* dropped: the state setters of an unmounted component do nothing, and    *)
(* the model does not follow what such a continuation would still notify.  *)
(***************************************************************************)
EXTENDS Integers, Sequences, FiniteSets, TLC

(***************************************************************************)
(* Bounds of the model.                                                    *)
(***************************************************************************)
MaxPending == 2
MaxSelected == 2
MaxPatients == 1
MaxTime == 2
MaxRecorders == 2
MaxOptional == 1
MaxCalls == 3
MaxChecks == 3
MaxMethodCalls == 2

(***************************************************************************)
(* Strings.                                                                *)
(***************************************************************************)
Digits == {"0", "1", "2", "3", "4", "5", "6", "7", "8", "9"}

DigitValue(c) ==
  CASE c = "0" -> 0 [] c = "1" -> 1 [] c = "2" -> 2 [] c = "3" -> 3
    [] c = "4" -> 4 [] c = "5" -> 5 [] c = "6" -> 6 [] c = "7" -> 7
    [] c = "8" -> 8 [] c = "9" -> 9

\* String.prototype.toLowerCase, on the letters of the alphabet.
LowerChar(c) ==
  CASE c = "A" -> "a" [] c = "B" -> "b" [] c = "C" -> "c" [] c = "D" -> "d"
    [] c = "E" -> "e" [] c = "F" -> "f" [] c = "G" -> "g" [] c = "H" -> "h"
    [] c = "I" -> "i" [] c = "J" -> "j" [] c = "K" -> "k" [] c = "L" -> "l"
    [] c = "M" -> "m" [] c = "N" -> "n" [] c = "O" -> "o" [] c = "P" -> "p"
    [] c = "Q" -> "q" [] c = "R" -> "r" [] c = "S" -> "s" [] c = "T" -> "t"
    [] c = "U" -> "u" [] c = "V" -> "v" [] c = "W" -> "w" [] c = "X" -> "x"
    [] c = "Y" -> "y" [] c = "Z" -> "z"
    [] OTHER -> c

toLowerCase(s) == [i \in 1..Len(s) |-> LowerChar(s[i])]

\* String.prototype.trim: the longest substring without a space at either end.
RECURSIVE TrimLeft(_)
TrimLeft(s) == IF s # <<>> /\ Head(s) = " " THEN TrimLeft(Tail(s)) ELSE s

RECURSIVE TrimRight(_)
TrimRight(s) ==
  IF s # <<>> /\ s[Len(s)] = " " THEN TrimRight(SubSeq(s, 1, Len(s) - 1)) ELSE s

trim(s) == TrimRight(TrimLeft(s))

\* s.replace(/[^\d.]/g, ''): keeps the digits and the dots.
RECURSIVE KeepNumeric(_)
KeepNumeric(s) ==
  IF s = <<>> THEN <<>>
  ELSE IF Head(s) \in Digits \cup {"."}
       THEN <<Head(s)>> \o KeepNumeric(Tail(s))
       ELSE KeepNumeric(Tail(s))

\* s.includes(t)
includes(s, t) ==
  \E i \in 1..(Len(s) - Len(t) + 1) : SubSeq(s, i, i + Len(t) - 1) = t

\* parseInt of a string of digits (the age inputs have type="number").
RECURSIVE parseInt(_)
parseInt(s) ==
  IF s = <<>> THEN 0
  ELSE 10 * parseInt(SubSeq(s, 1, Len(s) - 1)) + DigitValue(s[Len(s)])

(***************************************************************************)
(* JSON.  On the texts the model parses (the values of labResults below)    *)
(* JSON.parse accepts exactly: a number written with digits, an            *)
(* object without members, and an object with the single member "notes"    *)
(* holding a string, each with optional spaces around it.  A parsed value  *)
(* is a record [t, v]: t says which of the three, v holds the digits or    *)
(* the notes.                                                              *)
(***************************************************************************)
NotesOpen == <<"{", "\"", "n", "o", "t", "e", "s", "\"", ":", "\"">>
NotesClose == <<"\"", "}">>

EmptyObject == [t |-> "object", v |-> <<>>]
NotesObject(text) == [t |-> "notes", v |-> text]
JsonNumber(ds) == [t |-> "number", v |-> ds]

IsJsonNumber(s) ==
  /\ s # <<>>
  /\ \A i \in 1..Len(s) : s[i] \in Digits
  /\ (Len(s) > 1 => s[1] # "0")

IsJsonEmptyObject(s) ==
  /\ Len(s) >= 2
  /\ s[1] = "{"
  /\ s[Len(s)] = "}"
  /\ \A i \in 2..(Len(s) - 1) : s[i] = " "

IsJsonNotesObject(s) ==
  /\ Len(s) >= Len(NotesOpen) + Len(NotesClose)
  /\ SubSeq(s, 1, Len(NotesOpen)) = NotesOpen
  /\ SubSeq(s, Len(s) - 1, Len(s)) = NotesClose
  /\ \A i \in (Len(NotesOpen) + 1)..(Len(s) - 2) : s[i] \notin {"\"", "\\"}

\* JSON.parse throws a SyntaxError exactly when this is false.
JsonParses(s) ==
  LET body == trim(s)
  IN IsJsonNumber(body) \/ IsJsonEmptyObject(body) \/ IsJsonNotesObject(body)

JsonParse(s) ==
  LET body == trim(s)
  IN IF IsJsonNumber(body) THEN JsonNumber(body)
     ELSE IF IsJsonEmptyObject(body) THEN EmptyObject
     ELSE NotesObject(SubSeq(body, Len(NotesOpen) + 1, Len(body) - 2))

JsonStringify(j) ==
  IF j.t = "number" THEN j.v
  ELSE IF j.t = "object" THEN <<"{", "}">>
  ELSE NotesOpen \o j.v \o NotesClose

(***************************************************************************)
(* Severity: the labels of the view model and the codes of the backend.    *)
(***************************************************************************)
Mild == <<"M", "i", "l", "d">>
Moderate == <<"M", "o", "d", "e", "r", "a", "t", "e">>
Severe == <<"S", "e", "v", "e", "r", "e">>
low == <<"l", "o", "w">>
medium == <<"m", "e", "d", "i", "u", "m">>
high == <<"h", "i", "g", "h">>

SeverityLabels == {Mild, Moderate, Severe}
SeverityCodes == {low, medium, high}

\* mapSeverity with the cases of medium and high exchanged
mapSeveritySwapped(backendSeverity) ==
  LET s == toLowerCase(backendSeverity)
  IN IF s = low THEN Mild
     ELSE IF s = medium THEN Severe
     ELSE IF s = high THEN Moderate
     ELSE Mild

mapSeverity(backendSeverity) ==
  LET s == toLowerCase(backendSeverity)
  IN IF s = low THEN Mild
     ELSE IF s = medium THEN Moderate
     ELSE IF s = high THEN Severe
     ELSE Mild

mapSeverityToBackend(frontendSeverity) ==
  IF frontendSeverity = Mild THEN low
  ELSE IF frontendSeverity = Moderate THEN medium
  ELSE IF frontendSeverity = Severe THEN high
  ELSE low

(***************************************************************************)
(* Values of JavaScript whose type the code does not control (fields of a  *)
(* reply of the backend): a record [t, v] with the type and, for a string, *)
(* its characters.                                                         *)
(***************************************************************************)
Undefined == [t |-> "undefined", v |-> <<>>]
Str(s) == [t |-> "string", v |-> s]
NonString == [t |-> "number", v |-> <<"3">>]

truthy(x) == x.t = "number" \/ (x.t = "string" /\ x.v # <<>>)

\* Number.prototype.toString of a natural number.
RECURSIVE NatToStr(_)
NatToStr(n) ==
  LET d == <<"0", "1", "2", "3", "4", "5", "6", "7", "8", "9">>
  IN IF n < 10 THEN <<d[n + 1]>> ELSE NatToStr(n \div 10) \o <<d[(n % 10) + 1]>>

\* The index of the first space of s, or 0.
FirstSpace(s) ==
  IF \E i \in 1..Len(s) : s[i] = " "
  THEN CHOOSE i \in 1..Len(s) : s[i] = " " /\ \A j \in 1..(i - 1) : s[j] # " "
  ELSE 0

\* name.split(' ')[0]
NameHead(name) ==
  IF FirstSpace(name) = 0 THEN name ELSE SubSeq(name, 1, FirstSpace(name) - 1)

\* name.split(' ').slice(1).join(' ')
NameRest(name) ==
  IF FirstSpace(name) = 0 THEN <<>>
  ELSE SubSeq(name, FirstSpace(name) + 1, Len(name))

(***************************************************************************)
(* services/api.ts: the conversions between the view model and the         *)
(* backend.  A conversion that can throw is a pair of operators: whether   *)
(* it throws, and its value when it does not.                              *)
(***************************************************************************)
convertBackendToFrontendThrows(backendPatient) ==
  \/ backendPatient.name.t = "number"
  \/ backendPatient.severity.t = "number"

convertBackendToFrontend(backendPatient) ==
  LET name == IF truthy(backendPatient.name) THEN backendPatient.name.v ELSE <<>>
      sev == IF truthy(backendPatient.severity) THEN backendPatient.severity.v ELSE low
  IN [id |-> backendPatient.patient_id,
      firstName |-> NameHead(name),
      lastName |-> NameRest(name),
      recordNumber |-> backendPatient.patient_id,
      age |-> backendPatient.age,
      height |-> NatToStr(backendPatient.height) \o <<" ", "c", "m">>,
      weight |-> NatToStr(backendPatient.weight) \o <<" ", "k", "g">>,
      labResults |-> JsonStringify(backendPatient.lab_results),
      doctorNotes |-> backendPatient.doctors_notes,
      severity |-> mapSeverity(sev)]

\* `${firstName || ''} ${lastName || ''}`.trim()
fullName(firstName, lastName) == trim(firstName \o <<" ">> \o lastName)

OrZero(s) == IF s = <<>> THEN <<"0">> ELSE s

convertFrontendToBackendThrows(frontendPatient) ==
  frontendPatient.labResults # <<>> /\ ~JsonParses(frontendPatient.labResults)

convertFrontendToBackend(frontendPatient) ==
  [name |-> fullName(frontendPatient.firstName, frontendPatient.lastName),
   age |-> frontendPatient.age,
   height |-> OrZero(KeepNumeric(frontendPatient.height)),
   weight |-> OrZero(KeepNumeric(frontendPatient.weight)),
   lab_results |-> IF frontendPatient.labResults # <<>>
                   THEN JsonParse(frontendPatient.labResults)
                   ELSE EmptyObject,
   doctors_notes |-> frontendPatient.doctorNotes,
   severity |-> mapSeverityToBackend(frontendPatient.severity)]

\* The body updatePatient builds: only the fields its conditions let through.
updateBody(updateData) ==
  LET nameF == IF updateData.firstName # <<>> \/ updateData.lastName # <<>>
               THEN {"name"} ELSE {}
      heightF == IF updateData.height # <<>> THEN {"height"} ELSE {}
      weightF == IF updateData.weight # <<>> THEN {"weight"} ELSE {}
      labF == IF updateData.labResults # <<>> THEN {"lab_results"} ELSE {}
      sevF == IF updateData.severity # <<>> THEN {"severity"} ELSE {}
      all == [name |-> fullName(updateData.firstName, updateData.lastName),
              age |-> updateData.age,
              height |-> OrZero(KeepNumeric(updateData.height)),
              weight |-> OrZero(KeepNumeric(updateData.weight)),
              lab_results |-> IF JsonParses(updateData.labResults)
                              THEN JsonParse(updateData.labResults)
                              ELSE NotesObject(updateData.labResults),
              doctors_notes |-> updateData.doctorNotes,
              severity |-> mapSeverityToBackend(updateData.severity)]
  IN [f \in nameF \cup {"age"} \cup heightF \cup weightF \cup labF
            \cup {"doctors_notes"} \cup sevF |-> all[f]]

\* backendCriteria of filterPatients; a criterion that is undefined is
\* <<>> here.
filterBody(criteria) ==
  LET minF == IF criteria.minAge # <<>> THEN {"min_age"} ELSE {}
      maxF == IF criteria.maxAge # <<>> THEN {"max_age"} ELSE {}
      sevF == IF criteria.severity # <<>> THEN {"severity"} ELSE {}
      all == [min_age |-> criteria.minAge,
              max_age |-> criteria.maxAge,
              severity |-> mapSeverityToBackend(criteria.severity)]
  IN [f \in minF \cup maxF \cup sevF |-> all[f]]

(***************************************************************************)
(* services/api.ts: ApiService.request.  A fetch is a record [method, url, *)
(* body]; the reply to it is a record                                      *)
(*   [net |-> TRUE when fetch resolved, ok |-> response.ok,                *)
(*    status |-> the status as text, parses |-> response.json() resolves,  *)
(*    isNull |-> the body is null, detail, message |-> fields of an error  *)
(*    body, data |-> the body of a reply that is ok].                      *)
(***************************************************************************)
NoBody == [none |-> TRUE]

API_BASE_URL == "http://localhost:8000"

Fetch(method, url, body) == [method |-> method, url |-> url, body |-> body]

\* request that fetches a second time
requestTwice(endpoint, method, body) ==
  <<Fetch(method, API_BASE_URL \o endpoint, body),
    Fetch(method, API_BASE_URL \o endpoint, body)>>

\* The fetches one call of request issues (lines 124-132).
request(endpoint, method, body) == <<Fetch(method, API_BASE_URL \o endpoint, body)>>

\* A field of an error body: absent, a string, an array of validation
\* errors [loc, msg] or an object (s is its JSON text).
Absent == [t |-> "undefined", s |-> "", items |-> <<>>]
Text(s) == [t |-> "string", s |-> s, items |-> <<>>]
Items(items) == [t |-> "array", s |-> "", items |-> items]
Object(s) == [t |-> "object", s |-> s, items |-> <<>>]

present(x) == x.t \in {"array", "object"} \/ (x.t = "string" /\ x.s # "")

\* err.loc?.join('.') || 'field'
RECURSIVE JoinWith(_, _)
JoinWith(parts, sep) ==
  IF parts = <<>> THEN ""
  ELSE IF Len(parts) = 1 THEN parts[1]
  ELSE parts[1] \o sep \o JoinWith(Tail(parts), sep)

fieldOf(err) == IF JoinWith(err.loc, ".") # "" THEN JoinWith(err.loc, ".") ELSE "field"

detailMessage(items) ==
  JoinWith([i \in 1..Len(items) |-> fieldOf(items[i]) \o ": " \o items[i].msg], ", ")

\* lines 141-158: the message of the Error thrown for a reply that is not ok
errorMessage(reply) ==
  IF ~reply.parses THEN "HTTP error! status: " \o reply.status
  ELSE IF present(reply.detail)
  THEN IF reply.detail.t = "array" THEN detailMessage(reply.detail.items)
       ELSE reply.detail.s
  ELSE IF present(reply.message) THEN reply.message.s
  ELSE "HTTP error! status: " \o reply.status

\* How the try block of request ends for a reply: with the value it returns
\* or with what it throws (every throw there is of an Error).
tryRequest(reply) ==
  LET thrown(m) == [threw |-> TRUE, isError |-> TRUE, message |-> m,
                    hasData |-> FALSE, data |-> NoBody]
  IN IF ~reply.net THEN thrown("Failed to fetch")
     ELSE IF ~reply.ok
          THEN IF reply.parses /\ reply.isNull
               THEN thrown("Cannot read properties of null (reading 'detail')")
               ELSE thrown(errorMessage(reply))
     ELSE IF ~reply.parses THEN thrown("Unexpected end of JSON input")
     ELSE [threw |-> FALSE, isError |-> FALSE, message |-> "",
           hasData |-> ~reply.isNull, data |-> reply.data]

\* What request does with the end of its try block: the catch turns what
\* was thrown into a response.  rejected says that the promise of request
\* rejects; hasData says that data is truthy.
requestResult(reply) ==
  LET t == tryRequest(reply)
  IN IF t.threw
     THEN [rejected |-> FALSE, success |-> FALSE, hasData |-> FALSE, data |-> NoBody,
           error |-> IF t.isError THEN t.message ELSE "Unknown error occurred"]
     ELSE [rejected |-> FALSE, success |-> TRUE, hasData |-> t.hasData, data |-> t.data,
           error |-> ""]

(***************************************************************************)
(* The state.                                                              *)
(***************************************************************************)
VARIABLES
  page,             \* the page component the router has mounted
  id,               \* useParams().id, "" when the route has none
  testId,           \* useParams().testId, "" when the route has none
  pending,          \* the continuations that wait for a reply or an event
  lastOp,           \* the handler or continuation the last step ran
  out,              \* the fetches the last step sent, in order
  toastOut,         \* the titles of the notifications the last step raised
  navOut,           \* the paths the last step navigated to
  replyIn,          \* the reply the last step took up, NoReply when none
  loading,          \* PatientList, PatientForm (API), PatientDetails: loading
  patients,         \* PatientList: patients
  isModalOpen,      \* PatientList: isModalOpen
  quickFormData,    \* PatientList: quickFormData
  searchTerm,       \* PatientList: searchTerm
  formData,         \* PatientForm: formData
  patient,          \* PatientDetails: patient, NoPatient when null
  error,            \* PatientDetails: error, NoError when null
  selectedTests,    \* TestSelection: selectedTests; VideoRecording: location.state
  currentTestIndex, \* VideoRecording: currentTestIndex
  isRecording,      \* VideoRecording: isRecording
  isPaused,         \* VideoRecording: isPaused
  recordingTime,    \* VideoRecording: recordingTime
  completedTests,   \* VideoRecording: completedTests
  srcObject,        \* VideoRecording: videoRef.current.srcObject is set
  mediaRecorder,    \* VideoRecording: mediaRecorderRef.current, 0 when null
  recordedChunks,   \* VideoRecording: recordedChunks.current
  recorders,        \* the MediaRecorders the page has constructed
  videoList,        \* VideoSummary: videoList
  selectedVideo,    \* VideoSummary: selectedVideo, NoVideo when null
  calc,             \* the applications of the functions of services/api.ts
  isConnected,      \* useApiStatus: isConnected, "null", "true" or "false"
  isChecking        \* useApiStatus: isChecking

routerVars == <<page, id, testId>>
listVars == <<patients, isModalOpen, quickFormData, searchTerm>>
detailVars == <<patient, error>>
recVars == <<currentTestIndex, isRecording, isPaused, recordingTime,
             completedTests, srcObject, mediaRecorder, recordedChunks, recorders>>
summaryVars == <<videoList, selectedVideo>>
pageVars == <<loading, listVars, formData, detailVars, selectedTests, recVars, summaryVars>>
statusVars == <<isConnected, isChecking>>
vars == <<routerVars, pending, lastOp, out, toastOut, navOut, replyIn, pageVars, calc,
          statusVars>>

(***************************************************************************)
(* types/patient.ts and the data the pages start from.                     *)
(***************************************************************************)
AVAILABLE_TESTS ==
  <<[id |-> "stand-and-sit", name |-> "Stand and Sit Test"],
    [id |-> "palm-open", name |-> "Palm Open Test"],
    [id |-> "finger-tapping", name |-> "Finger Tapping Test"],
    [id |-> "fist-open-close", name |-> "Fist Open and Close Test"]>>

mockPatients ==
  <<
    [id |-> <<"1">>,
     firstName |-> <<"J", "o", "h", "n">>,
     lastName |-> <<"S", "m", "i", "t", "h">>,
     recordNumber |-> <<"P", "0", "0", "1">>,
     age |-> 65,
     height |-> <<"5", "'", "8", "\"">>,
     weight |-> <<"1", "7", "0", " ", "l", "b", "s">>,
     labResults |->
       <<"N", "o", "r", "m", "a", "l", " ", "C", "B", "C", ",", " ", "e",
       "l", "e", "v", "a", "t", "e", "d", " ", "d", "o", "p", "a",
       "m", "i", "n", "e", " ", "m", "a", "r", "k", "e", "r", "s">>,
     doctorNotes |->
       <<"P", "a", "t", "i", "e", "n", "t", " ", "s", "h", "o", "w", "s",
       " ", "m", "i", "l", "d", " ", "t", "r", "e", "m", "o", "r",
       " ", "i", "n", " ", "r", "i", "g", "h", "t", " ", "h", "a",
       "n", "d">>,
     severity |-> Mild],
    [id |-> <<"2">>,
     firstName |-> <<"M", "a", "r", "y">>,
     lastName |-> <<"J", "o", "h", "n", "s", "o", "n">>,
     recordNumber |-> <<"P", "0", "0", "2">>,
     age |-> 72,
     height |-> <<"5", "'", "4", "\"">>,
     weight |-> <<"1", "4", "5", " ", "l", "b", "s">>,
     labResults |->
       <<"L", "o", "w", " ", "d", "o", "p", "a", "m", "i", "n", "e", " ",
       "l", "e", "v", "e", "l", "s", ",", " ", "n", "o", "r", "m",
       "a", "l", " ", "o", "t", "h", "e", "r", " ", "m", "a", "r",
       "k", "e", "r", "s">>,
     doctorNotes |->
       <<"P", "r", "o", "g", "r", "e", "s", "s", "i", "v", "e", " ", "s",
       "y", "m", "p", "t", "o", "m", "s", ",", " ", "b", "a", "l",
       "a", "n", "c", "e", " ", "i", "s", "s", "u", "e", "s", " ",
       "n", "o", "t", "e", "d">>,
     severity |-> Moderate],
    [id |-> <<"3">>,
     firstName |-> <<"R", "o", "b", "e", "r", "t">>,
     lastName |-> <<"D", "a", "v", "i", "s">>,
     recordNumber |-> <<"P", "0", "0", "3">>,
     age |-> 68,
     height |-> <<"6", "'", "0", "\"">>,
     weight |-> <<"1", "8", "0", " ", "l", "b", "s">>,
     labResults |->
       <<"S", "i", "g", "n", "i", "f", "i", "c", "a", "n", "t", "l", "y",
       " ", "r", "e", "d", "u", "c", "e", "d", " ", "d", "o", "p",
       "a", "m", "i", "n", "e", ",", " ", "e", "l", "e", "v", "a",
       "t", "e", "d", " ", "i", "n", "f", "l", "a", "m", "m", "a",
       "t", "i", "o", "n">>,
     doctorNotes |->
       <<"A", "d", "v", "a", "n", "c", "e", "d", " ", "s", "y", "m", "p",
       "t", "o", "m", "s", ",", " ", "m", "o", "b", "i", "l", "i",
       "t", "y", " ", "a", "s", "s", "i", "s", "t", "a", "n", "c",
       "e", " ", "r", "e", "q", "u", "i", "r", "e", "d">>,
     severity |-> Severe]
  >>

EmptyQuickForm ==
  [firstName |-> <<>>, lastName |-> <<>>, recordNumber |-> <<>>, age |-> <<>>,
   severity |-> <<>>]

EmptyForm ==
  [firstName |-> <<>>, lastName |-> <<>>, recordNumber |-> <<>>, age |-> <<>>,
   height |-> <<>>, weight |-> <<>>, labResults |-> <<>>, doctorNotes |-> <<>>,
   severity |-> <<>>]

NoPatient == [none |-> TRUE]
\* selectedVideo when it is null; no recording has an empty name
NoVideo == ""
NoError == [isNull |-> TRUE, message |-> ""]
Error(message) == [isNull |-> FALSE, message |-> message]

(***************************************************************************)
(* The inputs: what the user types and picks, and what the backend (an     *)
(* external service) replies.                                              *)
(***************************************************************************)
Ids == {"p1"}

\* Date.now(), as text
Times == {"1"}
TestIds == {"test-" \o t : t \in Times}

\* the tests the user clicks in TestSelection
TestChoices == {AVAILABLE_TESTS[1].id, AVAILABLE_TESTS[3].id}

FirstNames == {<<>>, <<"A", "n", "n">>}
LastNames == {<<>>, <<"L", "e", "e">>}
RecordNumbers == {<<>>, <<"p", "1">>}
Ages == {<<>>, <<"6", "5">>}
Heights == {<<>>, <<"1", "7", "0", " ", "c", "m">>}
Weights == {<<>>, <<"7", "0", " ", "k", "g">>}
LabTexts == {<<>>, <<"{", "}">>, <<"o", "k">>}
NoteTexts == {<<>>, <<"r", "e", "s", "t">>}

\* what the user types into the search bar of the patient list
SearchTerms == {<<>>, <<"N", " ", "l">>, <<"p", "0">>}

BackendAnn ==
  [patient_id |-> <<"p", "1">>, name |-> Str(<<"A", "n", "n", " ", "L", "e", "e">>),
   age |-> 65, height |-> 170, weight |-> 70, lab_results |-> EmptyObject,
   doctors_notes |-> <<>>, severity |-> Str(low)]

BackendBo ==
  [patient_id |-> <<"p", "2">>, name |-> Str(<<"B", "o">>),
   age |-> 70, height |-> 0, weight |-> 0,
   lab_results |-> NotesObject(<<"o", "k">>),
   doctors_notes |-> <<"r", "e", "s", "t">>, severity |-> Str(<<"H", "I", "G", "H">>)]

\* A reply whose severity is not a string: toLowerCase is not a function.
BackendBroken == [BackendAnn EXCEPT !.severity = NonString]

BackendPatients == {BackendAnn, BackendBo, BackendBroken}
BackendLists == {<<>>, <<BackendAnn>>, <<BackendBo, BackendAnn>>, <<BackendBroken>>}

NetworkFailure ==
  [net |-> FALSE, ok |-> FALSE, status |-> "0", parses |-> FALSE, isNull |-> FALSE,
   detail |-> Absent, message |-> Absent, data |-> NoBody]

ErrorReply(status, parses, isNull, detail, message) ==
  [net |-> TRUE, ok |-> FALSE, status |-> status, parses |-> parses,
   isNull |-> isNull, detail |-> detail, message |-> message, data |-> NoBody]

OkReply(parses, isNull, data) ==
  [net |-> TRUE, ok |-> TRUE, status |-> "200", parses |-> parses,
   isNull |-> isNull, detail |-> Absent, message |-> Absent, data |-> data]

ValidationItem == [loc |-> <<"body", "age">>, msg |-> "value is not a valid integer"]

ErrorReplies ==
  {NetworkFailure,
   ErrorReply("500", FALSE, FALSE, Absent, Absent),
   ErrorReply("500", TRUE, FALSE, Absent, Absent),
   ErrorReply("500", TRUE, TRUE, Absent, Absent),
   ErrorReply("404", TRUE, FALSE, Text("Patient not found"), Absent),
   ErrorReply("422", TRUE, FALSE, Items(<<ValidationItem>>), Absent),
   ErrorReply("422", TRUE, FALSE, Items(<<>>), Absent),
   ErrorReply("400", TRUE, FALSE, Object("{\"code\":7}"), Absent),
   ErrorReply("503", TRUE, FALSE, Absent, Text("maintenance"))}

\* Replies to POST /patients/ and PUT /patients/{id}.
PatientReplies ==
  ErrorReplies
    \cup {OkReply(FALSE, FALSE, NoBody), OkReply(TRUE, TRUE, NoBody)}
    \cup {OkReply(TRUE, FALSE, b) : b \in BackendPatients}

\* Replies to GET /patients/?skip=..&limit=..
ListReplies ==
  ErrorReplies
    \cup {OkReply(FALSE, FALSE, NoBody), OkReply(TRUE, TRUE, NoBody)}
    \cup {OkReply(TRUE, FALSE, [patients |-> l]) : l \in BackendLists}

\* Replies to GET /patients/{id}: the patient, nested or not.
GetReplies ==
  ErrorReplies
    \cup {OkReply(FALSE, FALSE, NoBody), OkReply(TRUE, TRUE, NoBody)}
    \cup {OkReply(TRUE, FALSE, [nested |-> n, patient |-> b]) :
            n \in BOOLEAN, b \in {BackendAnn, BackendBroken}}

(***************************************************************************)
(* App.tsx: the routes.  A path is the sequence of its segments.           *)
(***************************************************************************)
Routes ==
  <<[path |-> <<>>, element |-> "PatientList"],
    [path |-> <<"patient", ":id">>, element |-> "PatientDetails"],
    [path |-> <<"patient-form">>, element |-> "PatientForm"],
    [path |-> <<"patient-form", ":id">>, element |-> "PatientForm"],
    [path |-> <<"patient", ":id", "test-selection">>, element |-> "TestSelection"],
    [path |-> <<"patient", ":id", "video-recording", ":testId">>,
     element |-> "VideoRecording"],
    [path |-> <<"patient", ":id", "video-summary", ":testId">>,
     element |-> "VideoSummary"]>>

Params == {":id", ":testId"}

Matches(path, pattern) ==
  /\ Len(path) = Len(pattern)
  /\ \A i \in 1..Len(path) :
       IF pattern[i] \in Params THEN path[i] # "" ELSE path[i] = pattern[i]

Declared(path) == \E i \in 1..Len(Routes) : Matches(path, Routes[i].path)

ParamOf(path, pattern, param) ==
  IF \E i \in 1..Len(pattern) : pattern[i] = param
  THEN path[CHOOSE i \in 1..Len(pattern) : pattern[i] = param]
  ELSE ""

\* The route a path renders: the first declared route that matches, else "*".
Resolve(path) ==
  IF Declared(path)
  THEN LET i == CHOOSE i \in 1..Len(Routes) :
                  /\ Matches(path, Routes[i].path)
                  /\ \A j \in 1..(i - 1) : ~Matches(path, Routes[j].path)
       IN [element |-> Routes[i].element,
           id |-> ParamOf(path, Routes[i].path, ":id"),
           testId |-> ParamOf(path, Routes[i].path, ":testId")]
  ELSE [element |-> "NotFound", id |-> "", testId |-> ""]

\* The sources of a page: the repository holds two of some pages.
Variants(element) ==
  CASE element = "PatientList" -> {"PatientList", "PatientListMock"}
    [] element = "PatientForm" -> {"PatientForm", "PatientFormApi"}
    [] element = "VideoRecording" -> {"VideoRecording", "VideoRecordingMock"}
    [] OTHER -> {element}

(***************************************************************************)
(* Continuations.  An await of the network or of an event of the browser   *)
(* leaves a continuation: its op and, in ctx, what its closure captured.   *)
(* pending holds a record [op, ctx, n] for n > 0 equal continuations that  *)
(* wait.  At most MaxPending continuations of one op wait at a time.       *)
(***************************************************************************)
NoCtx == [none |-> TRUE]

Waiting(op, pend) ==
  LET cs == {c \in pend : c.op = op}
      RECURSIVE Sum(_)
      Sum(S) == IF S = {} THEN 0
                ELSE LET c == CHOOSE c \in S : TRUE IN c.n + Sum(S \ {c})
  IN Sum(cs)

Room(op, pend) == Waiting(op, pend) < MaxPending

Await(op, ctx, pend) ==
  IF \E c \in pend : c.op = op /\ c.ctx = ctx
  THEN {IF c.op = op /\ c.ctx = ctx THEN [c EXCEPT !.n = c.n + 1] ELSE c : c \in pend}
  ELSE pend \cup {[op |-> op, ctx |-> ctx, n |-> 1]}

Settle(c, pend) ==
  IF c.n = 1 THEN pend \ {c} ELSE (pend \ {c}) \cup {[c EXCEPT !.n = c.n - 1]}

(***************************************************************************)
(* Mounting a page: the initial state of its component and the effects     *)
(* that run once after its first render.                                   *)
(***************************************************************************)
NoEffect == [op |-> "none", reqs |-> <<>>, ctx |-> NoCtx]

\* useEffect(..., []) and useEffect(..., [id]) of the page pg
MountEffect(pg, pid, tid) ==
  CASE pg = "PatientList" ->
         [op |-> "fetchPatients",
          reqs |-> request("/patients/?skip=0&limit=100", "GET", NoBody),
          ctx |-> NoCtx]
    [] pg = "PatientFormApi" /\ pid # "" ->
         [op |-> "loadPatientData",
          reqs |-> request("/patients/" \o pid, "GET", NoBody),
          ctx |-> NoCtx]
    [] pg = "PatientDetails" ->
         [op |-> "fetchPatient",
          reqs |-> <<Fetch("GET", "http://localhost:8000/patients/" \o pid, NoBody)>>,
          ctx |-> [id |-> pid]]
    [] pg = "VideoRecording" ->
         [op |-> "startCamera", reqs |-> <<>>, ctx |-> NoCtx]
    [] pg = "VideoSummary" ->
         [op |-> "fetchVideos",
          reqs |-> <<Fetch("GET", "/api/videos/" \o pid \o "/" \o tid, NoBody)>>,
          ctx |-> [id |-> pid, testId |-> tid]]
    [] OTHER -> NoEffect

\* The state of the page pg after its first render and its effects.
Mounted(pg, pid, tid, navSelected) ==
  LET eff == MountEffect(pg, pid, tid)
  IN [page |-> pg,
      id |-> pid,
      testId |-> tid,
      out |-> eff.reqs,
      pending |-> IF eff.op = "none" THEN {} ELSE Await(eff.op, eff.ctx, {}),
      loading |-> (pg \in {"PatientList", "PatientDetails"}),
      patients |-> IF pg = "PatientListMock" THEN mockPatients ELSE <<>>,
      selectedTests |-> IF pg \in {"VideoRecording", "VideoRecordingMock"}
                        THEN navSelected ELSE <<>>]

Mount(pg, pid, tid, navSelected) ==
  LET m == Mounted(pg, pid, tid, navSelected)
  IN /\ page' = m.page
     /\ id' = m.id
     /\ testId' = m.testId
     /\ out' = m.out
     /\ pending' = m.pending
     /\ loading' = m.loading
     /\ patients' = m.patients
     /\ selectedTests' = m.selectedTests
     /\ isModalOpen' = FALSE
     /\ quickFormData' = EmptyQuickForm
     /\ searchTerm' = <<>>
     /\ formData' = EmptyForm
     /\ patient' = NoPatient
     /\ error' = NoError
     /\ currentTestIndex' = 0
     /\ isRecording' = FALSE
     /\ isPaused' = FALSE
     /\ recordingTime' = 0
     /\ completedTests' = <<>>
     /\ srcObject' = FALSE
     /\ mediaRecorder' = 0
     /\ recordedChunks' = <<>>
     /\ recorders' = <<>>
     /\ videoList' = <<>>
     /\ selectedVideo' = NoVideo

\* What a continuation took up: ok says that it found what it awaited,
\* result is what the await resolved to.
NoReply == [none |-> TRUE]
Reply(ok, result) == [none |-> FALSE, ok |-> ok, result |-> result]

\* What every step records of itself.
Emit(op, toasts, reply) ==
  /\ lastOp' = op
  /\ toastOut' = toasts
  /\ replyIn' = reply
  /\ UNCHANGED <<calc, statusVars>>

\* A continuation that stays on the page.
Settled(op, reqs, toasts, pend, reply) ==
  /\ Emit(op, toasts, reply)
  /\ out' = reqs
  /\ navOut' = <<>>
  /\ pending' = pend
  /\ UNCHANGED routerVars

\* A handler that stays on the page.
Stay(op, reqs, toasts, pend) == Settled(op, reqs, toasts, pend, NoReply)

\* A continuation that ends with navigate(path, {state}): the router mounts
\* the page of the path.
GoSettled(op, toasts, path, navSelected, reply) ==
  LET r == Resolve(path)
  IN /\ Emit(op, toasts, reply)
     /\ navOut' = <<path>>
     /\ \E pg \in Variants(r.element) : Mount(pg, r.id, r.testId, navSelected)

\* A handler that ends with navigate(path, {state}), or a click on a Link.
Go(op, toasts, path, navSelected) == GoSettled(op, toasts, path, navSelected, NoReply)

(***************************************************************************)
(* The browser: the user opens a URL or clicks a Link of the page.         *)
(***************************************************************************)
UrlPaths ==
  {<<>>, <<"patient-form">>}
    \cup {<<"patient", i>> : i \in Ids}
    \cup {<<"patient-form", i>> : i \in Ids}
    \cup {<<"patient", i, "test-selection">> : i \in Ids}
    \cup {<<"patient", i, "video-recording", t>> : i \in Ids, t \in TestIds}
    \cup {<<"patient", i, "video-summary", t>> : i \in Ids, t \in TestIds}

OpenUrl ==
  \E path \in UrlPaths :
    /\ Emit("OpenUrl", <<>>, NoReply)
    /\ navOut' = <<>>
    /\ \E pg \in Variants(Resolve(path).element) :
         Mount(pg, Resolve(path).id, Resolve(path).testId, <<>>)

\* a filter that looks at the name only
filteredPatientsByName ==
  LET term == toLowerCase(searchTerm)
      keep(p) == includes(toLowerCase(p.firstName \o <<" ">> \o p.lastName), term)
  IN SelectSeq(patients, keep)

\* patients.filter(...) of the patient list
filteredPatients ==
  LET term == toLowerCase(searchTerm)
      keep(p) ==
        \/ includes(toLowerCase(p.firstName \o <<" ">> \o p.lastName), term)
        \/ includes(toLowerCase(p.recordNumber), term)
  IN SelectSeq(patients, keep)

\* The text of a string of characters, as it stands in a URL.
Segment(s) == JoinWith(s, "")

\* The targets of the Links the page renders.
Links ==
  CASE page = "PatientList" ->
         {<<"patient-form">>}
           \cup (IF loading THEN {}
                 ELSE {<<"patient", Segment(filteredPatients[i].id)>> :
                         i \in 1..Len(filteredPatients)})
    [] page = "PatientListMock" ->
         {<<"patient-form">>}
           \cup {<<"patient", Segment(filteredPatients[i].id)>> : i \in 1..Len(filteredPatients)}
    [] page \in {"PatientForm", "PatientFormApi"} ->
         {IF id # "" THEN <<"patient", id>> ELSE <<>>}
    [] page = "PatientDetails" ->
         IF loading \/ ~error.isNull \/ patient = NoPatient THEN {}
         ELSE {<<>>, <<"patient", id, "edit">>, <<"patient", id, "test-selection">>}
    [] page = "TestSelection" -> {<<"patient", id>>}
    [] page \in {"VideoRecording", "VideoRecordingMock"} ->
         {<<"patient", id, "test-selection">>}
    [] page = "VideoSummary" -> {<<"patient", id>>, <<"patient", id, "test-selection">>}
    [] OTHER -> {}

ClickLink == \E path \in Links : Go("Link", <<>>, path, <<>>)

(***************************************************************************)
(* pages/PatientList.tsx, the page that uses the API.                      *)
(***************************************************************************)
\* the condition of the validation of handleQuickSubmit
quickFormInvalid(fd) ==
  \/ fd.firstName = <<>>
  \/ fd.lastName = <<>>
  \/ fd.recordNumber = <<>>
  \/ fd.age = <<>>
  \/ fd.severity = <<>>

\* newPatientData of handleQuickSubmit
quickPatientData(fd) ==
  [firstName |-> fd.firstName,
   lastName |-> fd.lastName,
   recordNumber |-> fd.recordNumber,
   age |-> parseInt(fd.age),
   height |-> <<"1", "7", "0", " ", "c", "m">>,
   weight |-> <<"7", "0", " ", "k", "g">>,
   labResults |-> <<"{", "}">>,
   doctorNotes |-> <<>>,
   severity |-> fd.severity]

\* What a method of ApiService that converts the patients of a reply
\* resolves to, and whether it rejects because a conversion throws.
ListResults ==
  {LET r == requestResult(reply)
       threw == /\ r.success
                /\ r.hasData
                /\ \E i \in 1..Len(reply.data.patients) :
                     convertBackendToFrontendThrows(reply.data.patients[i])
   IN IF threw THEN [rejected |-> TRUE, success |-> FALSE, hasData |-> FALSE, data |-> <<>>]
      ELSE IF r.success /\ r.hasData
      THEN [rejected |-> FALSE, success |-> TRUE, hasData |-> TRUE,
            data |-> [i \in 1..Len(reply.data.patients) |->
                        convertBackendToFrontend(reply.data.patients[i])]]
      ELSE [rejected |-> FALSE, success |-> FALSE, hasData |-> FALSE, data |-> <<>>]
   : reply \in ListReplies}

\* createPatient and updatePatient: the converted patient, or the response
\* of request as it is (also a success without data).
PatientResults ==
  {LET r == requestResult(reply)
       threw == r.success /\ r.hasData /\ convertBackendToFrontendThrows(reply.data)
   IN IF threw THEN [rejected |-> TRUE, success |-> FALSE, hasData |-> FALSE, data |-> NoPatient]
      ELSE IF r.success /\ r.hasData
      THEN [rejected |-> FALSE, success |-> TRUE, hasData |-> TRUE,
            data |-> convertBackendToFrontend(reply.data)]
      ELSE [rejected |-> FALSE, success |-> r.success, hasData |-> FALSE, data |-> NoPatient]
   : reply \in PatientReplies}

\* The continuation of fetchPatients after await apiService.getPatients().
List_fetchPatientsReply ==
  \E c \in pending, r \in ListResults :
    /\ c.op = "fetchPatients"
    /\ Settled("fetchPatientsReply", <<>>,
               IF r.success /\ r.hasData THEN <<>> ELSE <<"Error">>, Settle(c, pending),
               Reply(r.success /\ r.hasData, r))
    /\ patients' = IF r.success /\ r.hasData THEN r.data ELSE patients
    /\ loading' = FALSE
    /\ UNCHANGED <<isModalOpen, quickFormData, searchTerm, formData,
                   detailVars, summaryVars, selectedTests, recVars>>

\* The Dialog opens and closes: its trigger, its Cancel button, onOpenChange.
List_setIsModalOpen ==
  /\ page \in {"PatientList", "PatientListMock"}
  /\ isModalOpen' = ~isModalOpen
  /\ Stay("setIsModalOpen", <<>>, <<>>, pending)
  /\ UNCHANGED <<loading, patients, quickFormData, searchTerm, formData,
                 detailVars, summaryVars, selectedTests, recVars>>

List_handleQuickFormChange ==
  /\ page \in {"PatientList", "PatientListMock"}
  /\ isModalOpen
  /\ \E fd \in {[quickFormData EXCEPT !.firstName = v] : v \in FirstNames}
           \cup {[quickFormData EXCEPT !.lastName = v] : v \in LastNames}
           \cup {[quickFormData EXCEPT !.recordNumber = v] : v \in RecordNumbers}
           \cup {[quickFormData EXCEPT !.age = v] : v \in Ages}
           \cup {[quickFormData EXCEPT !.severity = v] : v \in SeverityLabels} :
       /\ fd # quickFormData
       /\ quickFormData' = fd
  /\ Stay("handleQuickFormChange", <<>>, <<>>, pending)
  /\ UNCHANGED <<loading, patients, isModalOpen, searchTerm, formData,
                 detailVars, summaryVars, selectedTests, recVars>>

\* onChange of the search bar: setSearchTerm(e.target.value)
List_setSearchTerm ==
  /\ page \in {"PatientList", "PatientListMock"}
  /\ \E term \in SearchTerms :
       /\ term # searchTerm
       /\ searchTerm' = term
  /\ Stay("setSearchTerm", <<>>, <<>>, pending)
  /\ UNCHANGED <<loading, patients, isModalOpen, quickFormData, formData,
                 detailVars, summaryVars, selectedTests, recVars>>

\* handleQuickSubmit up to its await of apiService.createPatient
List_handleQuickSubmit ==
  /\ page = "PatientList"
  /\ isModalOpen
  /\ UNCHANGED pageVars
  /\ IF quickFormInvalid(quickFormData)
     THEN Stay("handleQuickSubmit", <<>>, <<"Validation Error">>, pending)
     ELSE IF convertFrontendToBackendThrows(quickPatientData(quickFormData))
     THEN Stay("handleQuickSubmit", <<>>, <<"Error">>, pending)
     ELSE /\ Room("createPatient", pending)
          /\ Len(patients) < MaxPatients
          /\ Stay("handleQuickSubmit",
                  request("/patients/", "POST",
                          convertFrontendToBackend(quickPatientData(quickFormData))),
                  <<>>, Await("createPatient", NoCtx, pending))

\* the condition without its check of response.data
addedWithoutData(response) == response.success

\* if (response.success && response.data)
added(response) == response.success /\ response.hasData

\* The continuation of handleQuickSubmit after the await.
List_createPatientReply ==
  \E c \in pending, r \in PatientResults :
    /\ c.op = "createPatient"
    /\ Settled("createPatientReply", <<>>,
               IF added(r) THEN <<"Patient Added">> ELSE <<"Error">>,
               Settle(c, pending), Reply(r.success /\ r.hasData, r))
    /\ IF added(r)
       THEN /\ patients' = Append(patients, r.data)
            /\ isModalOpen' = FALSE
            /\ quickFormData' = EmptyQuickForm
            /\ UNCHANGED <<loading, searchTerm, formData, detailVars, summaryVars,
                           selectedTests, recVars>>
       ELSE UNCHANGED pageVars

(***************************************************************************)
(* The patient list over mock data.                                        *)
(***************************************************************************)
ListMock_handleQuickSubmit ==
  /\ page = "PatientListMock"
  /\ isModalOpen
  /\ IF quickFormInvalid(quickFormData)
     THEN /\ Stay("handleQuickSubmit", <<>>, <<"Validation Error">>, pending)
          /\ UNCHANGED pageVars
     ELSE /\ Len(patients) < Len(mockPatients) + MaxPatients
          /\ patients' =
               Append(patients,
                      [id |-> NatToStr(Len(patients) + 1),
                       firstName |-> quickFormData.firstName,
                       lastName |-> quickFormData.lastName,
                       recordNumber |-> quickFormData.recordNumber,
                       age |-> parseInt(quickFormData.age),
                       height |-> <<>>,
                       weight |-> <<>>,
                       labResults |-> <<>>,
                       doctorNotes |-> <<>>,
                       severity |-> quickFormData.severity])
          /\ isModalOpen' = FALSE
          /\ quickFormData' = EmptyQuickForm
          /\ Stay("handleQuickSubmit", <<>>, <<"Patient Added">>, pending)
          /\ UNCHANGED <<loading, searchTerm, formData, detailVars, summaryVars, selectedTests, recVars>>

(***************************************************************************)
(* pages/PatientForm.tsx.  Both forms keep formData the same way; the      *)
(* user fills in at most MaxOptional optional fields more than the form    *)
(* holds.                                                                  *)
(***************************************************************************)
OptionalFields == {"height", "weight", "labResults", "doctorNotes"}

OptionalFilled(fd) == Cardinality({f \in OptionalFields : fd[f] # <<>>})

\* a Select whose items hold the labels in both forms
SeverityItemsLabels(pg) == SeverityLabels

\* the values of the SelectItems of the severity Select
SeverityItems(pg) == IF pg = "PatientForm" THEN SeverityCodes ELSE SeverityLabels

Form_handleInputChange ==
  /\ page \in {"PatientForm", "PatientFormApi"}
  /\ \E fd \in {[formData EXCEPT !.firstName = v] : v \in FirstNames}
           \cup {[formData EXCEPT !.lastName = v] : v \in LastNames}
           \cup {[formData EXCEPT !.recordNumber = v] : v \in RecordNumbers}
           \cup {[formData EXCEPT !.age = v] : v \in Ages}
           \cup {[formData EXCEPT !.height = v] : v \in Heights}
           \cup {[formData EXCEPT !.weight = v] : v \in Weights}
           \cup {[formData EXCEPT !.labResults = v] : v \in LabTexts}
           \cup {[formData EXCEPT !.doctorNotes = v] : v \in NoteTexts}
           \cup {[formData EXCEPT !.severity = v] : v \in SeverityItems(page)} :
       /\ fd # formData
       /\ OptionalFilled(fd) <= MaxOptional \/ OptionalFilled(fd) <= OptionalFilled(formData)
       /\ formData' = fd
  /\ Stay("handleInputChange", <<>>, <<>>, pending)
  /\ UNCHANGED <<loading, listVars, detailVars, summaryVars, selectedTests, recVars>>

\* the validation without its check of severity
formInvalidNoSeverity(fd) ==
  \/ fd.firstName = <<>>
  \/ fd.lastName = <<>>
  \/ fd.recordNumber = <<>>
  \/ fd.age = <<>>

\* the condition of the validation of handleSubmit
formInvalid(fd) ==
  \/ fd.firstName = <<>>
  \/ fd.lastName = <<>>
  \/ fd.recordNumber = <<>>
  \/ fd.age = <<>>
  \/ fd.severity = <<>>

\* payload of handleSubmit; the age input has type="number", Number reads
\* its digits as parseInt does
payload(fd) ==
  [name |-> fd.firstName \o <<" ">> \o fd.lastName,
   age |-> parseInt(fd.age),
   height |-> fd.height,
   weight |-> fd.weight,
   lab_results |-> NotesObject(fd.labResults),
   doctors_notes |-> fd.doctorNotes,
   severity |-> fd.severity]

\* handleSubmit up to its await of fetch
Form_handleSubmit ==
  /\ page = "PatientForm"
  /\ UNCHANGED pageVars
  /\ IF formInvalid(formData)
     THEN Stay("handleSubmit", <<>>, <<"Validation Error">>, pending)
     ELSE /\ Room("save", pending)
          /\ Stay("handleSubmit",
                  <<Fetch(IF id # "" THEN "PUT" ELSE "POST",
                          IF id # "" THEN "http://localhost:8000/patients/" \o id
                          ELSE "http://localhost:8000/patients/",
                          payload(formData))>>,
                  <<>>, Await("save", NoCtx, pending))

\* Whether the try block runs to its end: fetch resolves, res.json()
\* resolves and res.ok holds.
Saved(reply) == reply.net /\ reply.parses /\ reply.ok

\* The continuation of handleSubmit after the await.
Form_saveReply ==
  \E c \in pending, saved \in {Saved(reply) : reply \in PatientReplies} :
    /\ page = "PatientForm"
    /\ c.op = "save"
    /\ IF saved
       THEN GoSettled("saveReply",
                      <<IF id # "" THEN "Patient Updated" ELSE "Patient Created">>,
                      IF id # "" THEN <<"patient", id>> ELSE <<>>, <<>>,
                      Reply(TRUE, NoBody))
       ELSE /\ Settled("saveReply", <<>>, <<"Error">>, Settle(c, pending),
                       Reply(FALSE, NoBody))
            /\ UNCHANGED pageVars

(***************************************************************************)
(* The PatientForm that saves through ApiService.                          *)
(***************************************************************************)
\* What getPatient resolves to, and whether it rejects.
GetResults ==
  {LET r == requestResult(reply)
       threw == r.success /\ r.hasData /\ convertBackendToFrontendThrows(reply.data.patient)
   IN IF threw THEN [rejected |-> TRUE, success |-> FALSE, hasData |-> FALSE, data |-> NoPatient]
      ELSE IF r.success /\ r.hasData
      THEN [rejected |-> FALSE, success |-> TRUE, hasData |-> TRUE,
            data |-> convertBackendToFrontend(reply.data.patient)]
      ELSE [rejected |-> FALSE, success |-> FALSE, hasData |-> FALSE, data |-> NoPatient]
   : reply \in GetReplies}

\* The continuation of loadPatientData after await apiService.getPatient.
FormApi_loadPatientDataReply ==
  \E c \in pending, r \in GetResults :
    /\ c.op = "loadPatientData"
    /\ Settled("loadPatientDataReply", <<>>,
               IF r.rejected THEN <<"Error">> ELSE <<>>, Settle(c, pending),
               Reply(r.success /\ r.hasData, r))
    /\ formData' =
         IF r.success /\ r.hasData
         THEN [firstName |-> r.data.firstName,
               lastName |-> r.data.lastName,
               recordNumber |-> r.data.recordNumber,
               age |-> NatToStr(r.data.age),
               height |-> r.data.height,
               weight |-> r.data.weight,
               labResults |-> r.data.labResults,
               doctorNotes |-> r.data.doctorNotes,
               severity |-> r.data.severity]
         ELSE formData
    /\ UNCHANGED <<loading, listVars, detailVars, summaryVars, selectedTests, recVars>>

\* s || d
OrDefault(s, d) == IF s = <<>> THEN d ELSE s

\* patientData of handleSubmit
patientData(fd) ==
  [firstName |-> fd.firstName,
   lastName |-> fd.lastName,
   recordNumber |-> fd.recordNumber,
   age |-> parseInt(fd.age),
   height |-> OrDefault(fd.height, <<"1", "7", "0", " ", "c", "m">>),
   weight |-> OrDefault(fd.weight, <<"7", "0", " ", "k", "g">>),
   labResults |-> OrDefault(fd.labResults, <<"{", "}">>),
   doctorNotes |-> fd.doctorNotes,
   severity |-> fd.severity]

\* a submit button that is not disabled while loading
FormApi_handleSubmitWhileLoading ==
  /\ page = "PatientFormApi"
  /\ Room("save", pending)
  /\ UNCHANGED <<listVars, formData, detailVars, summaryVars, selectedTests, recVars>>
  /\ IF formInvalid(formData)
     THEN /\ Stay("handleSubmit", <<>>, <<"Validation Error">>, pending)
          /\ loading' = FALSE
     ELSE /\ Stay("handleSubmit",
                  request("/patients/", "POST",
                          convertFrontendToBackend(patientData(formData))),
                  <<>>, Await("save", NoCtx, pending))
          /\ loading' = TRUE

\* handleSubmit up to its await of updatePatient or createPatient.  The
\* submit button is disabled while loading.
FormApi_handleSubmit ==
  /\ page = "PatientFormApi"
  /\ ~loading
  /\ UNCHANGED <<listVars, formData, detailVars, summaryVars, selectedTests, recVars>>
  /\ IF formInvalid(formData)
     THEN /\ Stay("handleSubmit", <<>>, <<"Validation Error">>, pending)
          /\ loading' = FALSE
     ELSE IF id # ""
     THEN /\ Stay("handleSubmit",
                  request("/patients/" \o id, "PUT", updateBody(patientData(formData))),
                  <<>>, Await("save", NoCtx, pending))
          /\ loading' = TRUE
     ELSE IF convertFrontendToBackendThrows(patientData(formData))
     THEN /\ Stay("handleSubmit", <<>>, <<"Error">>, pending)
          /\ loading' = FALSE
     ELSE /\ Stay("handleSubmit",
                  request("/patients/", "POST",
                          convertFrontendToBackend(patientData(formData))),
                  <<>>, Await("save", NoCtx, pending))
          /\ loading' = TRUE

\* a continuation that navigates whatever the save resolved to
FormApi_saveReplyNavigates ==
  \E c \in pending, r \in PatientResults :
    /\ page = "PatientFormApi"
    /\ c.op = "save"
    /\ GoSettled("saveReply",
                 <<IF id # "" THEN "Patient Updated" ELSE "Patient Created">>,
                 IF id # "" THEN <<"patient", id>> ELSE <<>>, <<>>,
                 Reply(~r.rejected /\ r.success, r))

\* The continuation of handleSubmit after the await.
FormApi_saveReply ==
  \E c \in pending, r \in PatientResults :
    /\ page = "PatientFormApi"
    /\ c.op = "save"
    /\ IF ~r.rejected /\ r.success
       THEN GoSettled("saveReply",
                      <<IF id # "" THEN "Patient Updated" ELSE "Patient Created">>,
                      IF id # "" THEN <<"patient", id>> ELSE <<>>, <<>>,
                      Reply(TRUE, r))
       ELSE /\ Settled("saveReply", <<>>, <<"Error">>, Settle(c, pending),
                       Reply(FALSE, r))
            /\ loading' = FALSE
            /\ UNCHANGED <<listVars, formData, detailVars, summaryVars, selectedTests, recVars>>

(***************************************************************************)
(* pages/PatientDetails.tsx.                                               *)
(***************************************************************************)
\* the severity label fetchPatient computes inline
detailSeverity(severity) ==
  IF severity = Str(low) THEN Mild
  ELSE IF severity = Str(medium) THEN Moderate
  ELSE Severe

\* the patient fetchPatient builds from data.patient
detailPatient(bp) ==
  [id |-> bp.patient_id,
   firstName |-> NameHead(bp.name.v),
   lastName |-> IF FirstSpace(bp.name.v) = 0 THEN Undefined
                ELSE Str(NameHead(NameRest(bp.name.v))),
   recordNumber |-> <<>>,
   age |-> bp.age,
   height |-> NatToStr(bp.height),
   weight |-> NatToStr(bp.weight),
   labResults |-> IF bp.lab_results.t = "notes" THEN bp.lab_results.v ELSE <<>>,
   doctorNotes |-> bp.doctors_notes,
   severity |-> detailSeverity(bp.severity)]

\* new Error(data.detail || 'Failed to fetch patient').message
detailError(detail) ==
  IF ~present(detail) THEN "Failed to fetch patient"
  ELSE IF detail.t = "string" THEN detail.s
  ELSE IF detail.t = "object" THEN "[object Object]"
  ELSE JoinWith([i \in 1..Len(detail.items) |-> "[object Object]"], ",")

\* What the try block of fetchPatient ends with: the patient it sets or the
\* message of what it throws.
fetchPatientOutcome(reply) ==
  LET failed(m) == [patient |-> NoPatient, error |-> Error(m)]
  IN IF ~reply.net THEN failed("Failed to fetch")
     ELSE IF ~reply.parses THEN failed("Unexpected end of JSON input")
     ELSE IF ~reply.ok
          THEN IF reply.isNull
               THEN failed("Cannot read properties of null (reading 'detail')")
               ELSE failed(detailError(reply.detail))
     ELSE IF reply.isNull
          THEN failed("Cannot read properties of null (reading 'patient')")
     ELSE IF ~reply.data.nested
          THEN failed("Cannot read properties of undefined (reading 'name')")
     ELSE IF reply.data.patient.name.t # "string"
          THEN failed("data.patient.name.split is not a function")
     ELSE [patient |-> detailPatient(reply.data.patient), error |-> NoError]

\* The continuation of fetchPatient after its awaits.
Details_fetchPatientReply ==
  \E c \in pending, o \in {fetchPatientOutcome(reply) : reply \in GetReplies} :
    /\ c.op = "fetchPatient"
    /\ Settled("fetchPatientReply", <<>>, <<>>, Settle(c, pending),
               Reply(o.error.isNull, o))
    /\ patient' = IF o.error.isNull THEN o.patient ELSE patient
    /\ error' = IF o.error.isNull THEN error ELSE o.error
    /\ loading' = FALSE
    /\ UNCHANGED <<listVars, formData, selectedTests, recVars, summaryVars>>

(***************************************************************************)
(* TestSelection.                                                          *)
(***************************************************************************)
Includes(seq, x) == \E i \in 1..Len(seq) : seq[i] = x

\* an update that appends the test also when it is selected
toggleAppends(prev, t) == Append(prev, t)

\* the update handleTestSelection hands to setSelectedTests
toggle(prev, t) ==
  IF Includes(prev, t)
  THEN SelectSeq(prev, LAMBDA x : x # t)
  ELSE Append(prev, t)

Selection_handleTestSelection ==
  /\ page = "TestSelection"
  /\ \E t \in TestChoices :
       /\ Includes(selectedTests, t) \/ Len(selectedTests) < MaxSelected
       /\ selectedTests' = toggle(selectedTests, t)
  /\ Stay("handleTestSelection", <<>>, <<>>, pending)
  /\ UNCHANGED <<loading, listVars, formData, detailVars, summaryVars, recVars>>

\* handleStartRecording without its check of the selection
Selection_handleStartRecordingUnchecked ==
  /\ page = "TestSelection"
  /\ \E now \in Times :
       Go("handleStartRecording", <<>>,
          <<"patient", id, "video-recording", "test-" \o now>>, selectedTests)

Selection_handleStartRecording ==
  /\ page = "TestSelection"
  /\ IF Len(selectedTests) = 0
     THEN /\ Stay("handleStartRecording", <<>>, <<"No Tests Selected">>, pending)
          /\ UNCHANGED pageVars
     ELSE \E now \in Times :
            Go("handleStartRecording", <<>>,
               <<"patient", id, "video-recording", "test-" \o now>>, selectedTests)

(***************************************************************************)
(* VideoRecording with the webcam.  recorders[n] is the n-th MediaRecorder *)
(* the page constructed: its state and its onstop handler, which is what   *)
(* the closure of handleStopRecording captured.  mediaRecorder is the      *)
(* index of mediaRecorderRef.current.  A chunk of recordedChunks is the    *)
(* index of the recorder whose data it is.                                 *)
(***************************************************************************)
NoHandler == [set |-> FALSE, id |-> "", test_name |-> "", test_id |-> ""]

\* AVAILABLE_TESTS.find(test => test.id === selectedTests[currentTestIndex])
HasCurrentTest ==
  /\ currentTestIndex + 1 <= Len(selectedTests)
  /\ \E i \in 1..Len(AVAILABLE_TESTS) :
       AVAILABLE_TESTS[i].id = selectedTests[currentTestIndex + 1]

currentTest ==
  AVAILABLE_TESTS[CHOOSE i \in 1..Len(AVAILABLE_TESTS) :
                    AVAILABLE_TESTS[i].id = selectedTests[currentTestIndex + 1]]

\* completedTests.includes(selectedTests[currentTestIndex])
CurrentCompleted ==
  /\ currentTestIndex + 1 <= Len(selectedTests)
  /\ Includes(completedTests, selectedTests[currentTestIndex + 1])

\* The continuation of startCamera after await getUserMedia.
Rec_startCameraReply ==
  \E c \in pending, granted \in BOOLEAN :
    /\ c.op = "startCamera"
    /\ Settled("startCameraReply", <<>>,
               IF granted THEN <<>> ELSE <<"Camera Access Denied">>, Settle(c, pending),
               Reply(granted, NoBody))
    /\ srcObject' = granted
    /\ UNCHANGED <<loading, listVars, formData, detailVars, summaryVars, selectedTests,
                   currentTestIndex, isRecording, isPaused, recordingTime,
                   completedTests, mediaRecorder, recordedChunks, recorders>>

\* a timer that also runs while the recording is paused
Rec_tickWhilePaused ==
  /\ page = "VideoRecording"
  /\ isRecording
  /\ recordingTime < MaxTime
  /\ recordingTime' = recordingTime + 1
  /\ Stay("tick", <<>>, <<>>, pending)
  /\ UNCHANGED <<loading, listVars, formData, detailVars, summaryVars, selectedTests,
                 currentTestIndex, isRecording, isPaused,
                 completedTests, srcObject, mediaRecorder, recordedChunks, recorders>>

\* The callback of setInterval, which runs while isRecording && !isPaused.
Rec_tick ==
  /\ page = "VideoRecording"
  /\ isRecording /\ ~isPaused
  /\ recordingTime < MaxTime
  /\ recordingTime' = recordingTime + 1
  /\ Stay("tick", <<>>, <<>>, pending)
  /\ UNCHANGED <<loading, listVars, formData, detailVars, summaryVars, selectedTests,
                 currentTestIndex, isRecording, isPaused,
                 completedTests, srcObject, mediaRecorder, recordedChunks, recorders>>

Rec_handleStartRecording ==
  /\ page = "VideoRecording"
  /\ ~isRecording
  /\ srcObject => Len(recorders) < MaxRecorders
  /\ isRecording' = TRUE
  /\ isPaused' = FALSE
  /\ recordingTime' = 0
  /\ IF srcObject
     THEN /\ recordedChunks' = <<>>
          /\ recorders' = Append(recorders, [state |-> "recording", onstop |-> NoHandler])
          /\ mediaRecorder' = Len(recorders) + 1
     ELSE UNCHANGED <<recordedChunks, recorders, mediaRecorder>>
  /\ Stay("handleStartRecording", <<>>, <<>>, pending)
  /\ UNCHANGED <<loading, listVars, formData, detailVars, summaryVars, selectedTests,
                 currentTestIndex, completedTests, srcObject>>

\* pause() and resume() throw on a recorder that is inactive; setIsPaused is
\* then not reached.
Rec_handlePauseRecording ==
  /\ page = "VideoRecording"
  /\ isRecording
  /\ IF mediaRecorder = 0 \/ recorders[mediaRecorder].state = "inactive"
     THEN UNCHANGED <<isPaused, recorders>>
     ELSE /\ recorders' = [recorders EXCEPT ![mediaRecorder].state =
                             IF isPaused THEN "recording" ELSE "paused"]
          /\ isPaused' = ~isPaused
  /\ Stay("handlePauseRecording", <<>>, <<>>, pending)
  /\ UNCHANGED <<loading, listVars, formData, detailVars, summaryVars, selectedTests,
                 currentTestIndex, isRecording, recordingTime, completedTests,
                 srcObject, mediaRecorder, recordedChunks>>

\* handleStopRecording: it sets onstop and calls stop(), which inactivates
\* the recorder and queues the task that fires dataavailable and stop.  On
\* a recorder that is inactive stop() queues nothing.
Rec_handleStopRecording ==
  /\ page = "VideoRecording"
  /\ isRecording
  /\ IF mediaRecorder = 0
     THEN /\ Stay("handleStopRecording", <<>>, <<>>, pending)
          /\ UNCHANGED recorders
     ELSE LET handler == [set |-> TRUE,
                          id |-> id,
                          test_name |-> IF HasCurrentTest THEN currentTest.name
                                        ELSE "unknown",
                          test_id |-> IF HasCurrentTest THEN currentTest.id ELSE ""]
              active == recorders[mediaRecorder].state # "inactive"
          IN /\ recorders' = [recorders EXCEPT ![mediaRecorder] =
                                [state |-> "inactive", onstop |-> handler]]
             /\ Stay("handleStopRecording", <<>>, <<>>,
                     IF active THEN Await("stop", [n |-> mediaRecorder], pending)
                     ELSE pending)
  /\ UNCHANGED <<loading, listVars, formData, detailVars, summaryVars, selectedTests,
                 currentTestIndex, isRecording, isPaused, recordingTime,
                 completedTests, srcObject, mediaRecorder, recordedChunks>>

\* a FormData without the id of the patient
UploadBodyNoPatient(handler, chunks) ==
  [patient_id |-> "", test_name |-> handler.test_name, video |-> chunks]

\* the FormData of onstop
UploadBody(handler, chunks) ==
  [patient_id |-> handler.id, test_name |-> handler.test_name, video |-> chunks]

\* The task stop() queued: ondataavailable, then onstop up to its await of
\* fetch.
Rec_onstop ==
  \E c \in pending, hasData \in BOOLEAN :
    /\ c.op = "stop"
    /\ LET handler == recorders[c.ctx.n].onstop
           chunks == IF hasData THEN Append(recordedChunks, c.ctx.n) ELSE recordedChunks
       IN /\ recordedChunks' = chunks
          /\ isRecording' = FALSE
          /\ isPaused' = FALSE
          /\ Stay("onstop",
                  <<Fetch("POST", "http://localhost:8000/upload-video/",
                          UploadBody(handler, chunks))>>,
                  <<>>,
                  Await("upload", [test_id |-> handler.test_id], Settle(c, pending)))
    /\ UNCHANGED <<loading, listVars, formData, detailVars, summaryVars, selectedTests,
                   currentTestIndex, recordingTime, completedTests, srcObject,
                   mediaRecorder, recorders>>

\* Whether the upload ends in "Recording Saved": fetch resolves, response.ok
\* holds and response.json() resolves.
Uploaded(reply) == reply.net /\ reply.ok /\ reply.parses

UploadReplies ==
  ErrorReplies \cup {OkReply(FALSE, FALSE, NoBody), OkReply(TRUE, FALSE, NoBody)}

\* The continuation of onstop after the await.
Rec_uploadReply ==
  \E c \in pending, uploaded \in {Uploaded(reply) : reply \in UploadReplies} :
    /\ c.op = "upload"
    /\ Settled("uploadReply", <<>>,
               IF uploaded THEN <<"Recording Saved">> ELSE <<"Upload Error">>,
               Settle(c, pending), Reply(uploaded, NoBody))
    /\ completedTests' = Append(completedTests, c.ctx.test_id)
    /\ UNCHANGED <<loading, listVars, formData, detailVars, summaryVars, selectedTests,
                   currentTestIndex, isRecording, isPaused, recordingTime,
                   srcObject, mediaRecorder, recordedChunks, recorders>>

\* a Next Test button that is rendered before the current test is completed
Rec_handleNextTestAnytime ==
  /\ page = "VideoRecording"
  /\ currentTestIndex < Len(selectedTests) - 1
  /\ currentTestIndex' = currentTestIndex + 1
  /\ recordingTime' = 0
  /\ Stay("handleNextTest", <<>>, <<>>, pending)
  /\ UNCHANGED <<loading, listVars, formData, detailVars, summaryVars, selectedTests,
                 isRecording, isPaused, completedTests, srcObject,
                 mediaRecorder, recordedChunks, recorders>>

\* The Next Test button, rendered when the current test is completed and is
\* not the last.
Rec_handleNextTest ==
  /\ page = "VideoRecording"
  /\ CurrentCompleted
  /\ currentTestIndex < Len(selectedTests) - 1
  /\ IF currentTestIndex < Len(selectedTests) - 1
     THEN /\ currentTestIndex' = currentTestIndex + 1
          /\ recordingTime' = 0
          /\ Stay("handleNextTest", <<>>, <<>>, pending)
          /\ UNCHANGED <<loading, listVars, formData, detailVars, summaryVars, selectedTests,
                         isRecording, isPaused, completedTests, srcObject,
                         mediaRecorder, recordedChunks, recorders>>
     ELSE Go("handleNextTest", <<>>, <<"patient", id, "video-summary", testId>>, <<>>)

\* The View Summary button, rendered when the last test is completed.
Rec_viewSummary ==
  /\ page = "VideoRecording"
  /\ CurrentCompleted
  /\ ~(currentTestIndex < Len(selectedTests) - 1)
  /\ Go("viewSummary", <<>>, <<"patient", id, "video-summary", testId>>, <<>>)

\* a Reset that leaves isPaused as it is
Rec_handleResetKeepsPause ==
  /\ page = "VideoRecording"
  /\ isRecording
  /\ isRecording' = FALSE
  /\ recordingTime' = 0
  /\ Stay("handleReset", <<>>, <<>>, pending)
  /\ UNCHANGED <<loading, listVars, formData, detailVars, summaryVars, selectedTests, isPaused,
                 currentTestIndex, completedTests, srcObject, mediaRecorder,
                 recordedChunks, recorders>>

Rec_handleReset ==
  /\ page = "VideoRecording"
  /\ isRecording
  /\ isRecording' = FALSE
  /\ isPaused' = FALSE
  /\ recordingTime' = 0
  /\ Stay("handleReset", <<>>, <<>>, pending)
  /\ UNCHANGED <<loading, listVars, formData, detailVars, summaryVars, selectedTests,
                 currentTestIndex, completedTests, srcObject, mediaRecorder,
                 recordedChunks, recorders>>

(***************************************************************************)
(* VideoRecording without the webcam (the page that draws mock keypoints). *)
(* Its handlers only set the state of the component.                       *)
(***************************************************************************)
\* selectedTests[currentTestIndex], which is undefined past the end
NoTest == "undefined"

currentTestId ==
  IF currentTestIndex + 1 <= Len(selectedTests)
  THEN selectedTests[currentTestIndex + 1] ELSE NoTest

\* completedTests.includes(selectedTests[currentTestIndex]); includes finds
\* undefined in an array that holds it
RecMock_CurrentCompleted == Includes(completedTests, currentTestId)

RecMock_tick ==
  /\ page = "VideoRecordingMock"
  /\ isRecording /\ ~isPaused
  /\ recordingTime < MaxTime
  /\ recordingTime' = recordingTime + 1
  /\ Stay("tick", <<>>, <<>>, pending)
  /\ UNCHANGED <<loading, listVars, formData, detailVars, summaryVars, selectedTests,
                 currentTestIndex, isRecording, isPaused,
                 completedTests, srcObject, mediaRecorder, recordedChunks, recorders>>

RecMock_handleStartRecording ==
  /\ page = "VideoRecordingMock"
  /\ ~isRecording
  /\ isRecording' = TRUE
  /\ isPaused' = FALSE
  /\ recordingTime' = 0
  /\ Stay("handleStartRecording", <<>>, <<>>, pending)
  /\ UNCHANGED <<loading, listVars, formData, detailVars, summaryVars, selectedTests,
                 currentTestIndex, completedTests, srcObject, mediaRecorder,
                 recordedChunks, recorders>>

RecMock_handlePauseRecording ==
  /\ page = "VideoRecordingMock"
  /\ isRecording
  /\ isPaused' = ~isPaused
  /\ Stay("handlePauseRecording", <<>>, <<>>, pending)
  /\ UNCHANGED <<loading, listVars, formData, detailVars, summaryVars, selectedTests,
                 currentTestIndex, isRecording, recordingTime, completedTests,
                 srcObject, mediaRecorder, recordedChunks, recorders>>

RecMock_handleStopRecording ==
  /\ page = "VideoRecordingMock"
  /\ isRecording
  /\ Len(completedTests) < MaxRecorders
  /\ isRecording' = FALSE
  /\ isPaused' = FALSE
  /\ completedTests' = Append(completedTests, currentTestId)
  /\ Stay("handleStopRecording", <<>>, <<"Recording Completed">>, pending)
  /\ UNCHANGED <<loading, listVars, formData, detailVars, summaryVars, selectedTests,
                 currentTestIndex, recordingTime, srcObject, mediaRecorder,
                 recordedChunks, recorders>>

\* The Next Test button, rendered when the current test is completed and is
\* not the last.
RecMock_handleNextTest ==
  /\ page = "VideoRecordingMock"
  /\ RecMock_CurrentCompleted
  /\ currentTestIndex < Len(selectedTests) - 1
  /\ IF currentTestIndex < Len(selectedTests) - 1
     THEN /\ currentTestIndex' = currentTestIndex + 1
          /\ recordingTime' = 0
          /\ Stay("handleNextTest", <<>>, <<>>, pending)
          /\ UNCHANGED <<loading, listVars, formData, detailVars, summaryVars, selectedTests,
                         isRecording, isPaused, completedTests, srcObject,
                         mediaRecorder, recordedChunks, recorders>>
     ELSE Go("handleNextTest", <<>>, <<"patient", id, "video-summary", testId>>, <<>>)

\* The View Summary & Results button, rendered when the last test is
\* completed.
RecMock_viewSummary ==
  /\ page = "VideoRecordingMock"
  /\ RecMock_CurrentCompleted
  /\ ~(currentTestIndex < Len(selectedTests) - 1)
  /\ Go("viewSummary", <<>>, <<"patient", id, "video-summary", testId>>, <<>>)

RecMock_handleReset ==
  /\ page = "VideoRecordingMock"
  /\ isRecording
  /\ isRecording' = FALSE
  /\ isPaused' = FALSE
  /\ recordingTime' = 0
  /\ Stay("handleReset", <<>>, <<>>, pending)
  /\ UNCHANGED <<loading, listVars, formData, detailVars, summaryVars, selectedTests,
                 currentTestIndex, completedTests, srcObject, mediaRecorder,
                 recordedChunks, recorders>>

(***************************************************************************)
(* progress of both recording pages:                                       *)
(*   ((currentTestIndex + (completed ? 1 : 0)) / totalTests) * 100         *)
(* as the fraction num/den, or as what the division by 0 gives: NaN for    *)
(* 0/0 and Infinity for a positive number over 0.                          *)
(***************************************************************************)
progress ==
  LET completed == IF page = "VideoRecordingMock" THEN RecMock_CurrentCompleted
                   ELSE CurrentCompleted
      n == currentTestIndex + (IF completed THEN 1 ELSE 0)
      totalTests == Len(selectedTests)
  IN IF totalTests = 0
     THEN [kind |-> IF n = 0 THEN "NaN" ELSE "Infinity", num |-> 0, den |-> 1]
     ELSE [kind |-> "number", num |-> n * 100, den |-> totalTests]

(***************************************************************************)
(* VideoSummary, the page that fetches the recordings of a test.           *)
(***************************************************************************)
\* Bodies of a reply to GET /api/videos/{id}/{testId}: success, and videos
\* when the body has them, the most recent first.
VideoBodies ==
  {[success |-> ok, hasVideos |-> TRUE, videos |-> v] :
     ok \in BOOLEAN, v \in {<<>>, <<"a.mp4">>, <<"c.mp4", "b.mp4">>}}
    \cup {[success |-> ok, hasVideos |-> FALSE, videos |-> <<>>] : ok \in BOOLEAN}

\* fetchVideos reads the body of the reply whatever its status is.
VideoReplies ==
  {NetworkFailure, OkReply(FALSE, FALSE, NoBody), OkReply(TRUE, TRUE, NoBody)}
    \cup {OkReply(TRUE, FALSE, b) : b \in VideoBodies}
    \cup {[OkReply(TRUE, FALSE, b) EXCEPT !.ok = FALSE, !.status = "404"] :
            b \in {[success |-> FALSE, hasVideos |-> FALSE, videos |-> <<>>]}}

\* Whether the try block of fetchVideos reaches its two setters:
\* data.success && data.videos.length > 0, and nothing threw before.
videosFound(reply) ==
  /\ reply.net
  /\ reply.parses
  /\ ~reply.isNull
  /\ reply.data.success
  /\ reply.data.hasVideos
  /\ Len(reply.data.videos) > 0

\* The continuation of fetchVideos after its awaits.
Summary_fetchVideosReply ==
  \E c \in pending, reply \in VideoReplies :
    /\ c.op = "fetchVideos"
    /\ Settled("fetchVideosReply", <<>>, <<>>, Settle(c, pending),
               Reply(videosFound(reply), reply))
    /\ IF videosFound(reply)
       THEN /\ videoList' = reply.data.videos
            /\ selectedVideo' = IF reply.data.videos = <<>> THEN NoVideo
                                ELSE reply.data.videos[1]
       ELSE UNCHANGED summaryVars
    /\ UNCHANGED <<loading, listVars, formData, detailVars, selectedTests, recVars>>

\* onChange of the select, which is rendered for more than one video:
\* setSelectedVideo(e.target.value), the value of one of its options.
Summary_setSelectedVideo ==
  /\ page = "VideoSummary"
  /\ Len(videoList) > 1
  /\ \E i \in 1..Len(videoList) :
       /\ videoList[i] # selectedVideo
       /\ selectedVideo' = videoList[i]
  /\ Stay("setSelectedVideo", <<>>, <<>>, pending)
  /\ UNCHANGED <<loading, listVars, formData, detailVars, selectedTests, recVars,
                 videoList>>

(***************************************************************************)
(* The specification.                                                      *)
(***************************************************************************)
Init ==
  \E pg \in Variants("PatientList") :
    LET m == Mounted(pg, "", "", <<>>)
    IN /\ page = m.page
       /\ id = m.id
       /\ testId = m.testId
       /\ out = m.out
       /\ pending = m.pending
       /\ loading = m.loading
       /\ patients = m.patients
       /\ selectedTests = m.selectedTests
       /\ lastOp = "OpenUrl"
       /\ toastOut = <<>>
       /\ navOut = <<>>
       /\ replyIn = NoReply
       /\ isModalOpen = FALSE
       /\ quickFormData = EmptyQuickForm
       /\ searchTerm = <<>>
       /\ formData = EmptyForm
       /\ patient = NoPatient
       /\ error = NoError
       /\ currentTestIndex = 0
       /\ isRecording = FALSE
       /\ isPaused = FALSE
       /\ recordingTime = 0
       /\ completedTests = <<>>
       /\ srcObject = FALSE
       /\ mediaRecorder = 0
       /\ recordedChunks = <<>>
       /\ recorders = <<>>
       /\ videoList = <<>>
       /\ selectedVideo = NoVideo
       /\ calc = <<>>
       /\ isConnected = "null"
       /\ isChecking = TRUE

Next ==
  \/ OpenUrl
  \/ ClickLink
  \/ List_fetchPatientsReply
  \/ List_setIsModalOpen
  \/ List_handleQuickFormChange
  \/ List_setSearchTerm
  \/ List_handleQuickSubmit
  \/ List_createPatientReply
  \/ ListMock_handleQuickSubmit
  \/ Form_handleInputChange
  \/ Form_handleSubmit
  \/ Form_saveReply
  \/ FormApi_loadPatientDataReply
  \/ FormApi_handleSubmit
  \/ FormApi_saveReply
  \/ Details_fetchPatientReply
  \/ Selection_handleTestSelection
  \/ Selection_handleStartRecording
  \/ Rec_startCameraReply
  \/ Rec_tick
  \/ Rec_handleStartRecording
  \/ Rec_handlePauseRecording
  \/ Rec_handleStopRecording
  \/ Rec_onstop
  \/ Rec_uploadReply
  \/ Rec_handleNextTest
  \/ Rec_viewSummary
  \/ Rec_handleReset
  \/ RecMock_tick
  \/ RecMock_handleStartRecording
  \/ RecMock_handlePauseRecording
  \/ RecMock_handleStopRecording
  \/ RecMock_handleNextTest
  \/ RecMock_viewSummary
  \/ RecMock_handleReset
  \/ Summary_fetchVideosReply
  \/ Summary_setSelectedVideo

Spec == Init /\ [][Next]_vars

(***************************************************************************)
(* The webcam VideoRecording page from its mount on, for what it           *)
(* eventually does.  The page is mounted with the selection that           *)
(* TestSelection handed over or, opened by its URL, with none.  The        *)
(* browser runs every task it has queued and every fetch and every         *)
(* getUserMedia settles, so the steps that take them up are fair; what     *)
(* the user does is not.                                                   *)
(***************************************************************************)
RecSelections ==
  {sel \in UNION {[1..n -> TestChoices] : n \in 0..MaxSelected} :
     \A i, j \in 1..Len(sel) : sel[i] = sel[j] => i = j}

InitRec ==
  \E pid \in Ids, tid \in TestIds, sel \in RecSelections :
    LET m == Mounted("VideoRecording", pid, tid, sel)
    IN /\ page = m.page
       /\ id = m.id
       /\ testId = m.testId
       /\ out = m.out
       /\ pending = m.pending
       /\ loading = m.loading
       /\ patients = m.patients
       /\ selectedTests = m.selectedTests
       /\ lastOp = IF sel = <<>> THEN "OpenUrl" ELSE "handleStartRecording"
       /\ toastOut = <<>>
       /\ navOut = <<>>
       /\ replyIn = NoReply
       /\ isModalOpen = FALSE
       /\ quickFormData = EmptyQuickForm
       /\ searchTerm = <<>>
       /\ formData = EmptyForm
       /\ patient = NoPatient
       /\ error = NoError
       /\ currentTestIndex = 0
       /\ isRecording = FALSE
       /\ isPaused = FALSE
       /\ recordingTime = 0
       /\ completedTests = <<>>
       /\ srcObject = FALSE
       /\ mediaRecorder = 0
       /\ recordedChunks = <<>>
       /\ recorders = <<>>
       /\ videoList = <<>>
       /\ selectedVideo = NoVideo
       /\ calc = <<>>
       /\ isConnected = "null"
       /\ isChecking = TRUE

NextRec ==
  \/ Rec_startCameraReply
  \/ Rec_tick
  \/ Rec_handleStartRecording
  \/ Rec_handlePauseRecording
  \/ Rec_handleStopRecording
  \/ Rec_onstop
  \/ Rec_uploadReply
  \/ Rec_handleNextTest
  \/ Rec_viewSummary
  \/ Rec_handleReset

SpecRec ==
  /\ InitRec
  /\ [][NextRec]_vars
  /\ WF_vars(Rec_startCameraReply)
  /\ WF_vars(Rec_onstop)
  /\ WF_vars(Rec_uploadReply)

(***************************************************************************)
(* The PatientForm that saves through ApiService, from its mount on, for   *)
(* what it eventually does: the form that creates and the form that edits. *)
(* Every request of ApiService settles, so the continuations that take up  *)
(* the replies are fair; what the user does is not.                        *)
(***************************************************************************)
InitForm ==
  \E pid \in Ids \cup {""} :
    LET m == Mounted("PatientFormApi", pid, "", <<>>)
    IN /\ page = m.page
       /\ id = m.id
       /\ testId = m.testId
       /\ out = m.out
       /\ pending = m.pending
       /\ loading = m.loading
       /\ patients = m.patients
       /\ selectedTests = m.selectedTests
       /\ lastOp = "OpenUrl"
       /\ toastOut = <<>>
       /\ navOut = <<>>
       /\ replyIn = NoReply
       /\ isModalOpen = FALSE
       /\ quickFormData = EmptyQuickForm
       /\ searchTerm = <<>>
       /\ formData = EmptyForm
       /\ patient = NoPatient
       /\ error = NoError
       /\ currentTestIndex = 0
       /\ isRecording = FALSE
       /\ isPaused = FALSE
       /\ recordingTime = 0
       /\ completedTests = <<>>
       /\ srcObject = FALSE
       /\ mediaRecorder = 0
       /\ recordedChunks = <<>>
       /\ recorders = <<>>
       /\ videoList = <<>>
       /\ selectedVideo = NoVideo
       /\ calc = <<>>
       /\ isConnected = "null"
       /\ isChecking = TRUE

NextForm ==
  \/ Form_handleInputChange
  \/ FormApi_loadPatientDataReply
  \/ FormApi_handleSubmit
  \/ FormApi_saveReply

SpecForm ==
  /\ InitForm
  /\ [][NextForm]_vars
  /\ WF_vars(FormApi_loadPatientDataReply)
  /\ WF_vars(FormApi_saveReply)

(***************************************************************************)
(* PatientDetails from its mount on, while the router changes the id of    *)
(* the route under the mounted page (/patient/p1 to /patient/p2 keeps the  *)
(* element of the route mounted): the state of the component stays and     *)
(* the effect, whose dependency is id, runs again.  Every fetch settles,   *)
(* so the continuation of fetchPatient is fair.                            *)
(***************************************************************************)
DetailIds == {"p1", "p2"}

\* The page m was mounted as by the step op, and nothing else has happened.
Starts(m, op) ==
  /\ page = m.page
  /\ id = m.id
  /\ testId = m.testId
  /\ out = m.out
  /\ pending = m.pending
  /\ loading = m.loading
  /\ patients = m.patients
  /\ selectedTests = m.selectedTests
  /\ lastOp = op
  /\ toastOut = <<>>
  /\ navOut = <<>>
  /\ replyIn = NoReply
  /\ isModalOpen = FALSE
  /\ quickFormData = EmptyQuickForm
  /\ searchTerm = <<>>
  /\ formData = EmptyForm
  /\ patient = NoPatient
  /\ error = NoError
  /\ currentTestIndex = 0
  /\ isRecording = FALSE
  /\ isPaused = FALSE
  /\ recordingTime = 0
  /\ completedTests = <<>>
  /\ srcObject = FALSE
  /\ mediaRecorder = 0
  /\ recordedChunks = <<>>
  /\ recorders = <<>>
  /\ videoList = <<>>
  /\ selectedVideo = NoVideo
  /\ calc = <<>>
  /\ isConnected = "null"
  /\ isChecking = TRUE

\* useParams hands the mounted page another id: useEffect(..., [id]) calls
\* fetchPatient again; no state of the component is set before the await.
Details_idChange ==
  /\ page = "PatientDetails"
  /\ Room("fetchPatient", pending)
  /\ \E pid \in DetailIds \ {id} :
       LET eff == MountEffect("PatientDetails", pid, "")
       IN /\ id' = pid
          /\ out' = eff.reqs
          /\ pending' = Await(eff.op, eff.ctx, pending)
  /\ Emit("idChange", <<>>, NoReply)
  /\ navOut' = <<>>
  /\ UNCHANGED <<page, testId, pageVars>>

InitDetails == \E pid \in DetailIds : Starts(Mounted("PatientDetails", pid, "", <<>>), "OpenUrl")

NextDetails ==
  \/ Details_idChange
  \/ Details_fetchPatientReply

SpecDetails == InitDetails /\ [][NextDetails]_vars /\ WF_vars(Details_fetchPatientReply)

(***************************************************************************)
(* VideoSummary from its mount on, while the router changes the            *)
(* parameters of the route under the mounted page: the state of the        *)
(* component stays and the effect, whose dependencies are id and testId,   *)
(* runs again.                                                             *)
(***************************************************************************)
SummaryTestIds == TestIds \cup {"test-2"}

\* useParams hands the mounted page other parameters: the effect calls
\* fetchVideos again; no state of the component is set before the await.
Summary_paramsChange ==
  /\ page = "VideoSummary"
  /\ Room("fetchVideos", pending)
  /\ \E pid \in DetailIds, tid \in SummaryTestIds :
       LET eff == MountEffect("VideoSummary", pid, tid)
       IN /\ <<pid, tid>> # <<id, testId>>
          /\ id' = pid
          /\ testId' = tid
          /\ out' = eff.reqs
          /\ pending' = Await(eff.op, eff.ctx, pending)
  /\ Emit("paramsChange", <<>>, NoReply)
  /\ navOut' = <<>>
  /\ UNCHANGED <<page, pageVars>>

InitSummary ==
  \E pid \in DetailIds, tid \in SummaryTestIds :
    Starts(Mounted("VideoSummary", pid, tid, <<>>), "OpenUrl")

NextSummary ==
  \/ Summary_paramsChange
  \/ Summary_fetchVideosReply
  \/ Summary_setSelectedVideo

SpecSummary == InitSummary /\ [][NextSummary]_vars /\ WF_vars(Summary_fetchVideosReply)

(***************************************************************************)
(* The functions of services/api.ts on their own: calc is a trace of       *)
(* applications [fn, arg, value].  An application of a severity mapping    *)
(* that follows one takes its value as argument.                           *)
(***************************************************************************)
SeverityInputs ==
  SeverityLabels \cup SeverityCodes
    \cup {<<>>, <<"H", "I", "G", "H">>, <<"M", "e", "d", "i", "u", "m">>}

SeverityFns == {"mapSeverity", "mapSeverityToBackend"}

SeverityArgs ==
  IF calc # <<>> /\ calc[Len(calc)].fn \in SeverityFns
  THEN {calc[Len(calc)].value}
  ELSE SeverityInputs

Apply(fn, arg, value) ==
  /\ Len(calc) < MaxCalls
  /\ calc' = Append(calc, [fn |-> fn, arg |-> arg, value |-> value])
  /\ UNCHANGED <<routerVars, pending, lastOp, out, toastOut, navOut, replyIn, pageVars,
                 statusVars>>

Api_mapSeverity ==
  \E s \in SeverityArgs : Apply("mapSeverity", s, mapSeverity(s))

Api_mapSeverityToBackend ==
  \E s \in SeverityArgs : Apply("mapSeverityToBackend", s, mapSeverityToBackend(s))

Api_request ==
  \E reply \in PatientReplies \cup ListReplies :
    Apply("request", reply, requestResult(reply))

NextApi ==
  \/ Api_mapSeverity
  \/ Api_mapSeverityToBackend
  \/ Api_request

SpecApi == Init /\ [][NextApi]_vars

(***************************************************************************)
(* The two decoders of a patient of the backend on their own:              *)
(* convertBackendToFrontend of services/api.ts and the patient that        *)
(* fetchPatient of PatientDetails builds, applied to patients whose        *)
(* severity the backend chose and to patients whose name                   *)
(* convertFrontendToBackend built.                                         *)
(***************************************************************************)
\* severities of a reply: the codes, codes in other case, texts that are
\* no code, and none
BackendSeverities ==
  {Str(c) : c \in SeverityCodes}
    \cup {Str(<<"H", "I", "G", "H">>), Str(<<"M", "e", "d", "i", "u", "m">>),
          Str(<<"L", "O", "W">>), Str(<<"n", "o", "n", "e">>), Str(<<>>), Undefined}

\* names of the view model: a first name without a space, a last name of
\* one word or of two
DecodeFirstNames == {<<"A", "n", "n">>, <<"B", "o">>}
DecodeLastNames == {<<"L", "e", "e">>, <<"v", "a", "n", " ", "L", "e", "e">>}

\* The patient of the view model that a form hands to createPatient.
NamedPatient(firstName, lastName) ==
  quickPatientData([firstName |-> firstName, lastName |-> lastName,
                    recordNumber |-> <<"p", "1">>, age |-> <<"6", "5">>,
                    severity |-> Mild])

\* The patient the backend returns after it stored the body of a create.
Stored(body) ==
  [BackendAnn EXCEPT !.name = Str(body.name), !.severity = Str(body.severity)]

\* The patients the decoders are applied to.
DecodeArgs ==
  {[BackendAnn EXCEPT !.severity = sv] : sv \in BackendSeverities}
    \cup {Stored(calc[i].value) :
            i \in {k \in 1..Len(calc) : calc[k].fn = "convertFrontendToBackend"}}

Api_convertFrontendToBackend ==
  \E firstName \in DecodeFirstNames, lastName \in DecodeLastNames :
    Apply("convertFrontendToBackend", NamedPatient(firstName, lastName),
          convertFrontendToBackend(NamedPatient(firstName, lastName)))

Api_convertBackendToFrontend ==
  \E bp \in DecodeArgs :
    Apply("convertBackendToFrontend", bp, convertBackendToFrontend(bp))

Api_detailPatient ==
  \E bp \in DecodeArgs : Apply("detailPatient", bp, detailPatient(bp))

NextDecode ==
  \/ Api_convertFrontendToBackend
  \/ Api_convertBackendToFrontend
  \/ Api_detailPatient

SpecDecode == Init /\ [][NextDecode]_vars

(***************************************************************************)
(* The public methods of ApiService on their own.  The result of a method  *)
(* is a record [rejected, success, error, sent]: rejected says that the    *)
(* promise of the method rejects, error is the error of the response ("" *)
(* when the response has none) and sent is the body of the request.        *)
(***************************************************************************)
Rejects == [rejected |-> TRUE, success |-> FALSE, error |-> "", sent |-> NoBody]

Resolves(success, message, sent) ==
  [rejected |-> FALSE, success |-> success, error |-> message, sent |-> sent]

\* getPatients, searchPatients and filterPatients after their await of
\* request: the patients of the reply are converted, or the error of the
\* response is handed on.
listResult(reply, sent) ==
  LET r == requestResult(reply)
  IN IF r.success /\ r.hasData
     THEN IF \E i \in 1..Len(reply.data.patients) :
               convertBackendToFrontendThrows(reply.data.patients[i])
          THEN Rejects
          ELSE Resolves(TRUE, "", sent)
     ELSE Resolves(FALSE, r.error, sent)

\* getPatient after its await of request
getPatientResult(reply) ==
  LET r == requestResult(reply)
  IN IF r.success /\ r.hasData
     THEN IF convertBackendToFrontendThrows(reply.data.patient) THEN Rejects
          ELSE Resolves(TRUE, "", NoBody)
     ELSE Resolves(FALSE, r.error, NoBody)

\* createPatient and updatePatient after their await of request: the
\* patient of the reply is converted, or the response is returned as it is.
saveResult(reply, sent) ==
  LET r == requestResult(reply)
  IN IF r.success /\ r.hasData
     THEN IF convertBackendToFrontendThrows(reply.data) THEN Rejects
          ELSE Resolves(TRUE, "", sent)
     ELSE Resolves(r.success, r.error, sent)

\* createPatient: convertFrontendToBackend runs before the request.
createPatientResult(frontendPatient, reply) ==
  IF convertFrontendToBackendThrows(frontendPatient) THEN Rejects
  ELSE saveResult(reply, convertFrontendToBackend(frontendPatient))

\* deletePatient and addPatientTest return the response of request;
\* getPatientTests hands on data.tests or the error of the response.
plainResult(reply, sent) ==
  LET r == requestResult(reply)
  IN Resolves(r.success, r.error, sent)

testsResult(reply) ==
  LET r == requestResult(reply)
  IN IF r.success /\ r.hasData THEN Resolves(TRUE, "", NoBody)
     ELSE Resolves(FALSE, r.error, NoBody)

\* The patients a form hands to createPatient and updatePatient.
MethodPatients ==
  {[NamedPatient(<<"A", "n", "n">>, <<"L", "e", "e">>) EXCEPT !.labResults = t] :
     t \in LabTexts}

\* Replies to the requests that answer with true or with a list of tests.
PlainReplies ==
  ErrorReplies \cup {OkReply(FALSE, FALSE, NoBody), OkReply(TRUE, TRUE, NoBody),
                     OkReply(TRUE, FALSE, NoBody)}

ApplyMethod(fn, input, reply, value) ==
  /\ Len(calc) < MaxMethodCalls
  /\ Apply(fn, [input |-> input, reply |-> reply], value)

Api_getPatients ==
  \E reply \in ListReplies :
    ApplyMethod("getPatients", NoBody, reply, listResult(reply, NoBody))

Api_getPatient ==
  \E reply \in GetReplies :
    ApplyMethod("getPatient", NoBody, reply, getPatientResult(reply))

Api_createPatient ==
  \E p \in MethodPatients, reply \in PatientReplies :
    ApplyMethod("createPatient", p, reply, createPatientResult(p, reply))

Api_updatePatient ==
  \E p \in MethodPatients, reply \in PatientReplies :
    ApplyMethod("updatePatient", p, reply, saveResult(reply, updateBody(p)))

Api_deletePatient ==
  \E reply \in PlainReplies :
    ApplyMethod("deletePatient", NoBody, reply, plainResult(reply, NoBody))

Api_searchPatients ==
  \E reply \in ListReplies :
    ApplyMethod("searchPatients", NoBody, reply, listResult(reply, NoBody))

Api_filterPatients ==
  \E sv \in {<<>>, Severe}, reply \in ListReplies :
    LET criteria == [minAge |-> <<>>, maxAge |-> <<>>, severity |-> sv]
    IN ApplyMethod("filterPatients", criteria, reply,
                   listResult(reply, filterBody(criteria)))

Api_getPatientTests ==
  \E reply \in PlainReplies :
    ApplyMethod("getPatientTests", NoBody, reply, testsResult(reply))

Api_addPatientTest ==
  \E reply \in PlainReplies :
    ApplyMethod("addPatientTest", NoBody, reply, plainResult(reply, NoBody))

NextMethods ==
  \/ Api_getPatients
  \/ Api_getPatient
  \/ Api_createPatient
  \/ Api_updatePatient
  \/ Api_deletePatient
  \/ Api_searchPatients
  \/ Api_filterPatients
  \/ Api_getPatientTests
  \/ Api_addPatientTest

SpecMethods == Init /\ [][NextMethods]_vars

(***************************************************************************)
(* hooks/use-api-status.ts: useApiStatus on its own.  The hook shares no   *)
(* state with the component that calls it, which only renders isConnected  *)
(* and isChecking; its steps are those of checkConnection, which the       *)
(* effect of the hook calls after the first render and which the hook      *)
(* hands to its caller.  pending holds the checks that wait for a reply.   *)
(***************************************************************************)
\* Replies to GET /health: checkConnection reads response.ok only.
HealthReplies ==
  ErrorReplies \cup {OkReply(FALSE, FALSE, NoBody), OkReply(TRUE, FALSE, NoBody)}

healthRequest == <<Fetch("GET", "http://localhost:8000/health", NoBody)>>

StatusFrame == UNCHANGED <<routerVars, pageVars, calc>>

StatusStep(op, reqs, pend, reply) ==
  /\ lastOp' = op
  /\ out' = reqs
  /\ pending' = pend
  /\ replyIn' = reply
  /\ toastOut' = <<>>
  /\ navOut' = <<>>
  /\ StatusFrame

\* a check that takes a getPatients that rejected for a success
connectedUnlessFailed(r) == IF r.rejected \/ r.success THEN "true" ELSE "false"

\* setIsConnected(response.success), and setIsConnected(false) of catch
\* when getPatients rejected
connected(r) == IF ~r.rejected /\ r.success THEN "true" ELSE "false"

\* checkConnection up to its await of fetch
Status_checkConnection ==
  /\ Waiting("health", pending) + Waiting("getPatients", pending) < MaxChecks
  /\ isChecking' = TRUE
  /\ UNCHANGED isConnected
  /\ StatusStep("checkConnection", healthRequest, Await("health", NoCtx, pending), NoReply)

\* checkConnection after await fetch: without an ok response it is over,
\* through the else branch or through catch, and finally runs; with one it
\* calls getPatients(0, 1) and waits again.
Status_healthReply ==
  \E c \in pending, reply \in HealthReplies :
    /\ c.op = "health"
    /\ IF reply.net /\ reply.ok
       THEN /\ UNCHANGED <<isConnected, isChecking>>
            /\ StatusStep("healthReply",
                          request("/patients/?skip=0&limit=1", "GET", NoBody),
                          Await("getPatients", NoCtx, Settle(c, pending)),
                          Reply(TRUE, reply))
       ELSE /\ isConnected' = "false"
            /\ isChecking' = FALSE
            /\ StatusStep("healthReply", <<>>, Settle(c, pending), Reply(FALSE, reply))

\* checkConnection after await apiService.getPatients(0, 1):
\* setIsConnected(response.success), or catch when getPatients rejected.
Status_getPatientsReply ==
  \E c \in pending, r \in ListResults :
    /\ c.op = "getPatients"
    /\ isConnected' = connected(r)
    /\ isChecking' = FALSE
    /\ StatusStep("getPatientsReply", <<>>, Settle(c, pending),
                  Reply(~r.rejected /\ r.success, r))

\* The component that uses the hook is mounted anew: the state of the hook
\* is initial again, its effect calls checkConnection, and the checks of
\* the component before it are dropped.
Status_mount ==
  /\ isConnected' = "null"
  /\ isChecking' = TRUE
  /\ StatusStep("mount", healthRequest, Await("health", NoCtx, {}), NoReply)

InitStatus ==
  /\ page = "PatientList"
  /\ id = ""
  /\ testId = ""
  /\ out = healthRequest
  /\ pending = Await("health", NoCtx, {})
  /\ lastOp = "mount"
  /\ toastOut = <<>>
  /\ navOut = <<>>
  /\ replyIn = NoReply
  /\ loading = TRUE
  /\ patients = <<>>
  /\ isModalOpen = FALSE
  /\ quickFormData = EmptyQuickForm
  /\ searchTerm = <<>>
  /\ formData = EmptyForm
  /\ patient = NoPatient
  /\ error = NoError
  /\ selectedTests = <<>>
  /\ currentTestIndex = 0
  /\ isRecording = FALSE
  /\ isPaused = FALSE
  /\ recordingTime = 0
  /\ completedTests = <<>>
  /\ srcObject = FALSE
  /\ mediaRecorder = 0
  /\ recordedChunks = <<>>
  /\ recorders = <<>>
  /\ videoList = <<>>
  /\ selectedVideo = NoVideo
  /\ calc = <<>>
  /\ isConnected = "null"
  /\ isChecking = TRUE

NextStatus ==
  \/ Status_checkConnection
  \/ Status_healthReply
  \/ Status_getPatientsReply
  \/ Status_mount

SpecStatus == InitStatus /\ [][NextStatus]_vars

(***************************************************************************)
(* The claims.                                                             *)
(***************************************************************************)
RequiredFields == {"firstName", "lastName", "recordNumber", "age", "severity"}

MissingRequired(fd) == \E f \in RequiredFields : fd[f] = <<>>

OnForm == page \in {"PatientForm", "PatientFormApi"}

OnList == page \in {"PatientList", "PatientListMock"}

\* C1: whenever handleSubmit of a patient form or handleQuickSubmit of the
\* patient list runs with one of firstName, lastName, recordNumber, age and
\* severity empty, the step sends no request, leaves the patients list and
\* the data of both forms as they are, stays on the page and raises exactly
\* the notification 'Validation Error'.
C1_ValidationRejects ==
  [][(\/ lastOp' = "handleSubmit" /\ OnForm /\ MissingRequired(formData)
      \/ lastOp' = "handleQuickSubmit" /\ OnList /\ MissingRequired(quickFormData))
     => /\ out' = <<>>
        /\ patients' = patients
        /\ formData' = formData
        /\ quickFormData' = quickFormData
        /\ navOut' = <<>>
        /\ page' = page
        /\ toastOut' = <<"Validation Error">>]_vars

C1_Witness ==
  /\ page = "PatientFormApi"
  /\ lastOp = "handleSubmit"
  /\ toastOut = <<"Validation Error">>
  /\ formData.firstName # <<>>
  /\ formData.lastName # <<>>
  /\ formData.recordNumber # <<>>
  /\ formData.age # <<>>
  /\ formData.severity = <<>>

\* C2: in every trace of applications, mapSeverity applied to the value of
\* mapSeverityToBackend of a label Mild, Moderate or Severe gives the label
\* back, and mapSeverityToBackend applied to the value of mapSeverity of a
\* code low, medium or high gives the code back.
C2_SeverityRoundTrip ==
  \A i \in 1..(Len(calc) - 1) :
    /\ (/\ calc[i].fn = "mapSeverityToBackend"
        /\ calc[i].arg \in SeverityLabels
        /\ calc[i + 1].fn = "mapSeverity"
        /\ calc[i + 1].arg = calc[i].value)
       => calc[i + 1].value = calc[i].arg
    /\ (/\ calc[i].fn = "mapSeverity"
        /\ calc[i].arg \in SeverityCodes
        /\ calc[i + 1].fn = "mapSeverityToBackend"
        /\ calc[i + 1].arg = calc[i].value)
       => calc[i + 1].value = calc[i].arg

C2_Witness ==
  /\ Len(calc) = 3
  /\ calc[1].fn = "mapSeverityToBackend" /\ calc[1].arg = Severe
  /\ calc[2].fn = "mapSeverity" /\ calc[2].arg = high
  /\ calc[3].fn = "mapSeverityToBackend" /\ calc[3].arg = Severe

\* C3: every application of request resolves and does not reject; for a
\* reply that is a network failure, not ok or not parsable it resolves to
\* success false with an error that is not empty, and for a reply that is
\* ok with a body that parses it resolves to success true with that body as
\* data.
C3_RequestNeverRejects ==
  \A i \in 1..Len(calc) :
    calc[i].fn = "request" =>
      /\ ~calc[i].value.rejected
      /\ IF calc[i].arg.net /\ calc[i].arg.ok /\ calc[i].arg.parses
         THEN calc[i].value.success /\ calc[i].value.data = calc[i].arg.data
         ELSE ~calc[i].value.success /\ calc[i].value.error # ""

\* C4: whenever handleSubmit of a patient form runs with every required
\* field filled, the step sends exactly one request: POST /patients/ when
\* the form creates and PUT /patients/{id} when it edits.
C4_ExactlyOneRequest ==
  [][(lastOp' = "handleSubmit" /\ OnForm /\ ~MissingRequired(formData))
     => /\ Len(out') = 1
        /\ out'[1].method = (IF id = "" THEN "POST" ELSE "PUT")
        /\ out'[1].url = "http://localhost:8000/patients/" \o id]_vars

\* C5: the step that takes up the reply to a Quick Add either, when
\* createPatient rejected or resolved without success or without data,
\* leaves the patients list, the modal (open, unless the user closed it
\* meanwhile) and the quick form as they are and
\* raises exactly one 'Error', or, when createPatient resolved to success
\* with data, appends exactly the patient of the reply; no other step of
\* handleQuickSubmit changes the list.
C5_QuickAddFailure ==
  [][/\ (lastOp' = "createPatientReply" /\ page = "PatientList")
        => IF /\ ~replyIn'.result.rejected
              /\ replyIn'.result.success
              /\ replyIn'.result.hasData
           THEN /\ patients' = Append(patients, replyIn'.result.data)
                /\ \E b \in BackendPatients :
                     /\ ~convertBackendToFrontendThrows(b)
                     /\ replyIn'.result.data = convertBackendToFrontend(b)
                /\ toastOut' = <<"Patient Added">>
           ELSE /\ patients' = patients
                /\ isModalOpen' = isModalOpen
                /\ quickFormData' = quickFormData
                /\ toastOut' = <<"Error">>
     /\ (lastOp' = "handleQuickSubmit" /\ page = "PatientList")
        => patients' = patients]_vars

C5_Witness ==
  /\ page = "PatientList"
  /\ lastOp = "createPatientReply"
  /\ replyIn.result.rejected
  /\ toastOut = <<"Error">>
  /\ isModalOpen
  /\ quickFormData.firstName # <<>>

IsFetch(f) == f.method \in {"GET", "POST", "PUT", "DELETE"}

C7_SeverityCodes ==
  /\ \A i \in 1..Len(out) :
       "severity" \in DOMAIN out[i].body => out[i].body.severity \in SeverityCodes
  /\ \A s \in SeverityLabels \cup SeverityCodes :
       filterBody([minAge |-> <<>>, maxAge |-> <<>>, severity |-> s]).severity
         \in SeverityCodes

C7_Witness ==
  /\ page = "PatientFormApi"
  /\ lastOp = "handleSubmit"
  /\ formData.severity = Severe
  /\ Len(out) = 1
  /\ out[1].method = "PUT"
  /\ out[1].body.severity = high

IsUpload(f) == f.method = "POST" /\ f.url = "http://localhost:8000/upload-video/"

\* C8: a Stop on a recorder that records or is paused sends nothing, stops
\* the recorder and queues one stop task for it; an upload is sent only by
\* the step that runs this task, after the recorder has become inactive,
\* as a single POST /upload-video/ with the id of the patient, the name of
\* the test that was current at the Stop and the recorded video; at no time
\* does more than one stop task wait for a recorder.
C8_UploadOncePerStop ==
  /\ [](\A c \in pending :
          c.op = "stop" => /\ c.n = 1
                           /\ recorders[c.ctx.n].state = "inactive"
                           /\ recorders[c.ctx.n].onstop.set)
  /\ [][/\ (\E i \in 1..Len(out') : IsUpload(out'[i]))
           => /\ lastOp' = "onstop"
              /\ Len(out') = 1
              /\ \E c \in pending :
                   /\ c.op = "stop"
                   /\ c \notin pending'
                   /\ recorders[c.ctx.n].state = "inactive"
                   /\ out'[1].body.patient_id = id
                   /\ out'[1].body.test_name = recorders[c.ctx.n].onstop.test_name
                   /\ "video" \in DOMAIN out'[1].body
        /\ lastOp' = "onstop" => (Len(out') = 1 /\ IsUpload(out'[1]))
        /\ (/\ lastOp' = "handleStopRecording"
            /\ mediaRecorder # 0
            /\ recorders[mediaRecorder].state # "inactive")
           => /\ out' = <<>>
              /\ recorders'[mediaRecorder].state = "inactive"
              /\ recorders'[mediaRecorder].onstop.test_name =
                   (IF HasCurrentTest THEN currentTest.name ELSE "unknown")
              /\ [op |-> "stop", ctx |-> [n |-> mediaRecorder], n |-> 1] \in pending']_vars

C8_Witness ==
  /\ page = "VideoRecording"
  /\ lastOp = "onstop"
  /\ Len(out) = 1
  /\ IsUpload(out[1])
  /\ out[1].body.patient_id = "p1"
  /\ out[1].body.test_name = "Finger Tapping Test"
  /\ out[1].body.video # <<>>
  /\ currentTestIndex = 1

\* C9: handleStartRecording of TestSelection, with a selection that is not
\* empty, navigates to the video-recording route of the patient and hands
\* the page exactly the selection; with an empty selection it stays,
\* navigates nowhere and raises 'No Tests Selected'.
C9_StartRecordingNeedsSelection ==
  [][(lastOp' = "handleStartRecording" /\ page = "TestSelection")
     => IF selectedTests = <<>>
        THEN /\ navOut' = <<>>
             /\ page' = page
             /\ selectedTests' = selectedTests
             /\ toastOut' = <<"No Tests Selected">>
        ELSE /\ Len(navOut') = 1
             /\ Resolve(navOut'[1]).element = "VideoRecording"
             /\ Resolve(navOut'[1]).id = id
             /\ page' \in Variants("VideoRecording")
             /\ selectedTests' = selectedTests
             /\ toastOut' = <<>>]_vars

C9_Witness ==
  /\ page = "VideoRecording"
  /\ lastOp = "handleStartRecording"
  /\ Len(navOut) = 1
  /\ selectedTests = <<"finger-tapping", "stand-and-sit">>
  /\ ~isRecording

\* C10: the target of every Link the page renders and of every navigation
\* of a step matches a declared route other than the catch-all.
C10_TargetsDeclared ==
  /\ \A path \in Links : Declared(path)
  /\ \A i \in 1..Len(navOut) : Declared(navOut[i])

\* C11: a check that gets no ok response from GET /health (a response that
\* is not ok, or a fetch that rejects) ends with isConnected false and sends
\* nothing more; one that gets an ok response sends GET
\* /patients/?skip=0&limit=1 and leaves isConnected as it is; the reply to
\* that request ends the check with isConnected true when getPatients
\* resolved with success and false when it resolved without or rejected;
\* only such a reply makes isConnected true; and isConnected is null only
\* while isChecking holds and no check has settled since the mount.
C11_ConnectionStatus ==
  /\ [](isConnected = "null" => isChecking)
  /\ [][/\ lastOp' = "healthReply" /\ ~replyIn'.ok
           => isConnected' = "false" /\ ~isChecking' /\ out' = <<>>
        /\ lastOp' = "healthReply" /\ replyIn'.ok
           => /\ isConnected' = isConnected
              /\ out' = <<Fetch("GET", "http://localhost:8000/patients/?skip=0&limit=1",
                                NoBody)>>
        /\ lastOp' = "getPatientsReply"
           => /\ ~isChecking'
              /\ isConnected' \in {"true", "false"}
              /\ isConnected' = "true"
                   <=> (replyIn'.result.success /\ ~replyIn'.result.rejected)
        /\ (isConnected' = "true" /\ isConnected # "true")
           => lastOp' = "getPatientsReply"
        /\ (isConnected' = "null" /\ isConnected # "null") => lastOp' = "mount"
        /\ lastOp' \in {"healthReply", "getPatientsReply"} /\ ~isChecking'
           => isConnected' # "null"]_vars

C11_Witness ==
  /\ lastOp = "getPatientsReply"
  /\ replyIn.result.rejected
  /\ isConnected = "false"
  /\ ~isChecking
  /\ pending # {}

\* C12: a step of a patient form navigates only when it takes up a save
\* that succeeded, and then to / after a create and to /patient/{id} after
\* an update, with the notification of the success; the step that takes
\* up a save that failed (a reply that is not ok, a fetch, a parse or a
\* conversion that threw) and every handleSubmit stay on the form and
\* leave formData as it is, and those of them that send nothing raise the
\* "Error" or the "Validation Error" notification.
C12_NavigateAfterSave ==
  [][(OnForm /\ lastOp' \in {"handleSubmit", "saveReply", "handleInputChange",
                             "loadPatientDataReply"})
     => LET target == IF id # "" THEN <<"patient", id>> ELSE <<>>
            stays == /\ page' = page
                     /\ id' = id
                     /\ formData' = formData
                     /\ navOut' = <<>>
        IN /\ navOut' # <<>> => (lastOp' = "saveReply" /\ replyIn'.ok)
           /\ (lastOp' = "saveReply" /\ replyIn'.ok)
              => /\ navOut' = <<target>>
                 /\ page' \in Variants(Resolve(target).element)
                 /\ toastOut' = <<IF id # "" THEN "Patient Updated"
                                  ELSE "Patient Created">>
           /\ (lastOp' = "saveReply" /\ page = "PatientFormApi")
              => replyIn'.ok = (replyIn'.result.success /\ ~replyIn'.result.rejected)
           /\ (lastOp' = "saveReply" /\ ~replyIn'.ok)
              => (stays /\ toastOut' = <<"Error">> /\ out' = <<>>)
           /\ lastOp' = "handleSubmit"
              => /\ stays
                 /\ out' = <<>> => toastOut' \in {<<"Validation Error">>, <<"Error">>}
                 /\ MissingRequired(formData) => toastOut' = <<"Validation Error">>]_vars

C12_Witness ==
  /\ page = "PatientFormApi"
  /\ id # ""
  /\ lastOp = "saveReply"
  /\ ~replyIn.ok
  /\ replyIn.result.rejected
  /\ navOut = <<>>
  /\ formData.firstName # <<>>

OnRecording == page \in {"VideoRecording", "VideoRecordingMock"}

\* A step of the recording page that leaves the page mounted.
RecordingStep == OnRecording /\ lastOp' # "OpenUrl" /\ navOut' = <<>>

\* C13: on both recording pages a tick is taken only while isRecording
\* holds and isPaused does not, and adds one to recordingTime; such a state
\* can take a tick (below the bound of the model); Start, Reset and Next
\* test set recordingTime to 0; every other step that leaves the page
\* mounted, Pause, Resume and Stop among them, leaves recordingTime as it
\* is.
C13_RecordingTime ==
  /\ []((OnRecording /\ isRecording /\ ~isPaused /\ recordingTime < MaxTime)
         => ENABLED (Rec_tick \/ RecMock_tick))
  /\ [][RecordingStep
        => /\ lastOp' = "tick" => (isRecording /\ ~isPaused)
           /\ recordingTime' =
                IF lastOp' = "tick" THEN recordingTime + 1
                ELSE IF lastOp' \in {"handleStartRecording", "handleReset",
                                     "handleNextTest"}
                THEN 0
                ELSE recordingTime]_vars

C13_Witness ==
  /\ page = "VideoRecording"
  /\ lastOp = "handlePauseRecording"
  /\ isRecording
  /\ ~isPaused
  /\ recordingTime = 2
  /\ mediaRecorder # 0

\* C14: on both recording pages isPaused holds only while isRecording
\* holds, so the page shows STOPPED (neither), RECORDING (isRecording
\* alone) or PAUSED (both).
C14_PausedImpliesRecording == OnRecording => (isPaused => isRecording)

C14_Witness ==
  /\ page = "VideoRecordingMock"
  /\ lastOp = "handlePauseRecording"
  /\ isPaused
  /\ isRecording
  /\ completedTests # <<>>

\* What a Stop that has stopped a recorder does: onstop sets both flags to
\* false, and the continuation after the upload marks the test that was
\* current at the Stop, whatever the reply, and notifies by the reply.
StopOfRecorder ==
  /\ (page = "VideoRecording" /\ lastOp' = "onstop")
     => (~isRecording' /\ ~isPaused')
  /\ (page = "VideoRecording" /\ lastOp' = "uploadReply")
     => /\ \E c \in pending :
             /\ c.op = "upload"
             /\ c \notin pending' \/ \E d \in pending' : d.op = c.op /\ d.n < c.n
             /\ completedTests' = Append(completedTests, c.ctx.test_id)
        /\ toastOut' = <<IF replyIn'.ok THEN "Recording Saved" ELSE "Upload Error">>
        /\ out' = <<>>

\* C15: when a Stop finishes, isRecording and isPaused are false and the
\* id of the current test is in completedTests: in the mock page at the
\* end of handleStopRecording; in the webcam page at the end of a
\* handleStopRecording that returns at once because there is no recorder,
\* and, for a Stop that stops a recorder, through onstop and the
\* continuation after the upload, which marks the test whether the upload
\* succeeded or failed and raises "Upload Error" when it failed and
\* "Recording Saved" when it succeeded.
C15_StopCompletesTest ==
  [][/\ (page = "VideoRecordingMock" /\ lastOp' = "handleStopRecording")
        => /\ ~isRecording' /\ ~isPaused'
           /\ Includes(completedTests', currentTestId)
           /\ toastOut' = <<"Recording Completed">>
     /\ (page = "VideoRecording" /\ lastOp' = "handleStopRecording" /\ mediaRecorder = 0)
        => /\ ~isRecording' /\ ~isPaused'
           /\ Includes(completedTests', currentTestId)
     /\ StopOfRecorder]_vars

\* C16: in the webcam page, after every press of Stop (which the page
\* offers while it records or is paused) the page eventually shows STOPPED
\* and eventually marks one more test completed, unless it is left before,
\* also when the camera was denied before Start.
C16_StopEventuallyStops ==
  /\ (page = "VideoRecording" /\ lastOp = "handleStopRecording")
       ~> (page # "VideoRecording" \/ ~isRecording)
  /\ \A k \in 0..MaxRecorders :
       (page = "VideoRecording" /\ lastOp = "handleStopRecording"
          /\ Len(completedTests) = k)
         ~> (page # "VideoRecording" \/ Len(completedTests) > k)

\* C17: in the webcam page, while isRecording is false no MediaRecorder the
\* page constructed records or is paused, and at no time is more than one
\* of them recording or paused.
C17_FlagsAgreeWithRecorder ==
  page = "VideoRecording"
    => /\ ~isRecording => \A n \in 1..Len(recorders) : recorders[n].state = "inactive"
       /\ Cardinality({n \in 1..Len(recorders) : recorders[n].state # "inactive"}) <= 1

\* The tests at the indexes below currentTestIndex are completed.
EarlierCompleted ==
  \A i \in 1..currentTestIndex :
    i <= Len(selectedTests) => Includes(completedTests, selectedTests[i])

\* How currentTestIndex moves: a recording page is mounted with index 0;
\* a step that leaves the page mounted leaves the index or, as Next of a
\* page whose current test is completed, adds one; and a step of the page
\* that navigates goes to the video-summary route, or by the Link back to
\* the selection, and to the summary only with every selected test
\* completed.
ProgressionSteps ==
  /\ (page' \in {"VideoRecording", "VideoRecordingMock"}
        /\ (lastOp' = "OpenUrl" \/ navOut' # <<>>))
     => currentTestIndex' = 0
  /\ RecordingStep
     => \/ currentTestIndex' = currentTestIndex
        \/ /\ lastOp' = "handleNextTest"
           /\ currentTestIndex' = currentTestIndex + 1
           /\ Includes(completedTests, currentTestId)
  /\ (OnRecording /\ navOut' # <<>> /\ lastOp' # "Link")
     => /\ lastOp' \in {"viewSummary", "handleNextTest"}
        /\ navOut' = <<(<<"patient", id, "video-summary", testId>>)>>
        /\ Includes(completedTests, currentTestId)
        /\ \A i \in 1..Len(selectedTests) : Includes(completedTests, selectedTests[i])

\* C18 as it is stated: on a recording page currentTestIndex is within
\* 0..Len(selectedTests)-1 and the tests below it are completed, and the
\* index moves as ProgressionSteps says.
C18_ProgressionOrdered ==
  /\ [](OnRecording => /\ currentTestIndex \in 0..(Len(selectedTests) - 1)
                       /\ EarlierCompleted)
  /\ [][ProgressionSteps]_vars

\* C18, amended: on a recording page that was handed a selection
\* currentTestIndex is within 0..Len(selectedTests)-1, on one that was
\* handed none it is 0; the tests below it are completed, and the index
\* moves as ProgressionSteps says.
C18_ProgressionOrderedWithSelection ==
  /\ [](OnRecording => /\ selectedTests # <<>>
                          => currentTestIndex \in 0..(Len(selectedTests) - 1)
                       /\ selectedTests = <<>> => currentTestIndex = 0
                       /\ EarlierCompleted)
  /\ [][ProgressionSteps]_vars

C18_Witness ==
  /\ page = "VideoRecording"
  /\ lastOp = "handleNextTest"
  /\ currentTestIndex = 1
  /\ Len(selectedTests) = 2
  /\ Includes(completedTests, selectedTests[1])

\* The last selected test is the current one and is completed.
LastCompleted ==
  /\ currentTestIndex = Len(selectedTests) - 1
  /\ Includes(completedTests, currentTestId)

\* C19: on a recording page progress is a number, it lies between 0 and
\* 100, and it is 100 exactly when the last selected test is completed.
C19_ProgressDefined ==
  OnRecording
    => /\ progress.kind = "number"
       /\ 0 <= progress.num
       /\ progress.num <= 100 * progress.den
       /\ progress.num = 100 * progress.den <=> LastCompleted

Range(seq) == {seq[i] : i \in 1..Len(seq)}

\* C20: on TestSelection selectedTests holds no test twice; a toggle of a
\* test that is absent appends it and a toggle of one that is present
\* removes it and leaves the others in their order; and two toggles of
\* the same test give back the same set of selected tests.
C20_ToggleSelection ==
  /\ [](page = "TestSelection"
         => /\ Cardinality(Range(selectedTests)) = Len(selectedTests)
            /\ \A t \in TestChoices :
                 Range(toggle(toggle(selectedTests, t), t)) = Range(selectedTests))
  /\ [][(page = "TestSelection" /\ lastOp' = "handleTestSelection")
        => \E t \in TestChoices :
             IF t \in Range(selectedTests)
             THEN /\ Range(selectedTests') = Range(selectedTests) \ {t}
                  /\ Len(selectedTests') = Len(selectedTests) - 1
             ELSE selectedTests' = selectedTests \o <<t>>]_vars

C20_Witness ==
  /\ page = "TestSelection"
  /\ lastOp = "handleTestSelection"
  /\ selectedTests = <<"finger-tapping", "stand-and-sit">>

\* Whether text t occurs in text s when the case of letters is ignored:
\* s is some text, then t letter for letter up to case, then some text.
SameLetter(a, b) == LowerChar(a) = LowerChar(b)

ContainsIgnoringCase(s, t) ==
  \E k \in 0..(Len(s) - Len(t)) :
    \A j \in 1..Len(t) : SameLetter(s[k + j], t[j])

\* The patient matches the term by its name or by its record number.
MatchesTerm(p, term) ==
  \/ ContainsIgnoringCase(p.firstName \o <<" ">> \o p.lastName, term)
  \/ ContainsIgnoringCase(p.recordNumber, term)

\* The positions of the patients that match, and the n-th of them.
MatchingPositions == {i \in 1..Len(patients) : MatchesTerm(patients[i], searchTerm)}

NthMatching(n) ==
  CHOOSE i \in MatchingPositions : Cardinality({k \in MatchingPositions : k < i}) = n - 1

\* C21: on the patient list, filteredPatients is exactly the patients, in
\* their order in the list, whose "firstName lastName" or whose
\* recordNumber contains the search term when case is ignored; with an
\* empty term it is the whole list; and a step that changes the term
\* leaves the patients list as it is.
C21_SearchFilters ==
  /\ [](OnList =>
         /\ Len(filteredPatients) = Cardinality(MatchingPositions)
         /\ \A n \in 1..Len(filteredPatients) :
              filteredPatients[n] = patients[NthMatching(n)]
         /\ (searchTerm = <<>> => filteredPatients = patients))
  /\ [][lastOp' = "setSearchTerm" => patients' = patients /\ searchTerm' # searchTerm]_vars

\* a term is typed that some patients of the list match and others do not,
\* one of them by the record number only
C21_Witness ==
  /\ OnList
  /\ lastOp = "setSearchTerm"
  /\ searchTerm # <<>>
  /\ filteredPatients # <<>>
  /\ Len(filteredPatients) < Len(patients)
  /\ \E i \in 1..Len(patients) :
       /\ ContainsIgnoringCase(patients[i].recordNumber, searchTerm)
       /\ ~ContainsIgnoringCase(patients[i].firstName \o <<" ">> \o patients[i].lastName,
                                searchTerm)

\* A step of the patient list that leaves its component mounted.
ListStep == OnList /\ navOut' = <<>> /\ lastOp' # "OpenUrl"

\* C22: a patient that Quick Add has added stays in the patients list of
\* the page: the step that takes up a successful createPatient puts the
\* patient into the list, and no later step of the mounted page, the
\* continuation of the initial getPatients included, takes a patient out
\* of the list (before the initial reply the list holds nothing but what
\* Quick Add has added).
C22_QuickAddStays ==
  [][ListStep =>
       /\ (lastOp' = "createPatientReply" /\ replyIn'.ok
             => Includes(patients', replyIn'.result.data))
       /\ \A i \in 1..Len(patients) : Includes(patients', patients[i])]_vars

\* The calls of checkConnection that wait for a reply.
ChecksInFlight == Waiting("health", pending) + Waiting("getPatients", pending)

\* C23: isChecking of useApiStatus is true exactly while a check is in
\* flight: it is true whenever some call of checkConnection waits for a
\* reply, also a call made before an earlier one has settled, and it is
\* false once no call waits, whichever way the last check ended.
C23_CheckingWhileInFlight == isChecking <=> ChecksInFlight > 0

OnFormApi == page = "PatientFormApi"

\* The saves of the form that wait for a reply.
SavesInFlight == Waiting("save", pending)

\* C24: in the PatientForm that saves through ApiService, loading is true
\* from the step of handleSubmit that sends the save until the step that
\* takes up its outcome, and false otherwise: a handleSubmit that fails
\* the validation or cannot send leaves loading false, one that sends
\* leaves it true, and the continuation that stays on the form sets it
\* false; handleSubmit runs only while loading is false, so at most one
\* save is in flight; and a form that is loading eventually is not, or is
\* left for the page the save navigates to.
C24_LoadingWhileSaving ==
  /\ [](OnFormApi => /\ SavesInFlight <= 1
                     /\ (loading <=> SavesInFlight = 1))
  /\ [][(OnFormApi /\ lastOp' = "handleSubmit")
          => /\ ~loading
             /\ loading' = (out' # <<>>)
             /\ (toastOut' # <<>> => ~loading')]_vars
  /\ [][(OnFormApi /\ lastOp' = "saveReply" /\ navOut' = <<>>) => ~loading']_vars
  /\ ((OnFormApi /\ loading) ~> (~OnFormApi \/ ~loading))

\* a save that the backend refused has been taken up: the form shows the
\* error, stays, and is not loading
C24_Witness ==
  /\ OnFormApi
  /\ lastOp = "saveReply"
  /\ toastOut = <<"Error">>
  /\ ~replyIn.ok
  /\ ~loading
  /\ SavesInFlight = 0

\* The applications of the decoders in calc.
Applications(fn) == {i \in 1..Len(calc) : calc[i].fn = fn}

\* C25: the two decoders agree on the severity: whenever
\* convertBackendToFrontend and the decoder of PatientDetails have been
\* applied to patients with the same severity (a code, a code in upper
\* case, a text that is no code, or none), they give the same label.
C25_DecodersAgreeOnSeverity ==
  \A i \in Applications("convertBackendToFrontend"), j \in Applications("detailPatient") :
    calc[i].arg.severity = calc[j].arg.severity
      => calc[i].value.severity = calc[j].value.severity

\* The last name a decoder gave, as a value of JavaScript.
DecodedLastName(i) ==
  IF calc[i].fn = "detailPatient" THEN calc[i].value.lastName
  ELSE Str(calc[i].value.lastName)

\* C26: the name round-trips: whenever a decoder (convertBackendToFrontend
\* or the split of PatientDetails) has been applied to a patient whose
\* name convertFrontendToBackend built from a first name without a space
\* and a last name of one or several words, it gives back that first name
\* and that last name.
C26_NameRoundTrip ==
  \A i \in Applications("convertFrontendToBackend"),
     j \in Applications("convertBackendToFrontend") \cup Applications("detailPatient") :
    calc[j].arg.name = Str(calc[i].value.name)
      => /\ calc[j].value.firstName = calc[i].arg.firstName
         /\ DecodedLastName(j) = Str(calc[i].arg.lastName)

OnDetails == page = "PatientDetails"

\* The id of the route for which the fetch that this step takes up was sent.
TakenUpFor == (CHOOSE c \in pending : pending' = Settle(c, pending)).ctx.id

\* C27: PatientDetails shows exactly one outcome: whenever loading is
\* false, exactly one of patient and error is not null; the step that
\* takes up a fetch takes up the fetch for the id of the route and leaves
\* its outcome, the patient or the error, as the one that is not null,
\* whatever ids the route had before; and loading, true from the mount
\* on, eventually is false.
C27_OneOutcome ==
  /\ []((OnDetails /\ ~loading) => ((patient = NoPatient) # error.isNull))
  /\ [][(OnDetails /\ lastOp' = "fetchPatientReply")
          => /\ TakenUpFor = id
             /\ IF replyIn'.ok
                THEN patient' = replyIn'.result.patient /\ error'.isNull
                ELSE error' = replyIn'.result.error /\ patient' = NoPatient]_vars
  /\ ((OnDetails /\ loading) ~> ~loading)

OnSummary == page = "VideoSummary"

\* The parameters for which the fetch that this step takes up was sent.
VideosTakenUpFor == (CHOOSE c \in pending : pending' = Settle(c, pending)).ctx

\* The videos a reply reports: none when the fetch failed, when the body
\* does not report success or when it holds no videos.
ReportedVideos(reply) ==
  IF reply.net /\ reply.parses /\ ~reply.isNull /\ reply.data.success
     /\ reply.data.hasVideos
  THEN reply.data.videos ELSE <<>>

\* C28: on the VideoSummary page selectedVideo is null or an element of
\* videoList; the step that takes up a fetch takes up the fetch for the
\* parameters of the route, and after it the list is what that fetch
\* reported (the empty list when the backend reports no videos or the
\* fetch failed) and the selection is the first entry of the list, or null
\* (No video available) when the list is empty, also when the parameters
\* of the route had other values before.
C28_VideoSelection ==
  /\ [](OnSummary => (selectedVideo = NoVideo \/ Includes(videoList, selectedVideo)))
  /\ [][(OnSummary /\ lastOp' = "fetchVideosReply")
          => /\ VideosTakenUpFor = [id |-> id, testId |-> testId]
             /\ videoList' = ReportedVideos(replyIn'.result)
             /\ selectedVideo' = (IF videoList' = <<>> THEN NoVideo ELSE videoList'[1])]_vars

PublicMethods ==
  {"getPatients", "getPatient", "createPatient", "updatePatient", "deletePatient",
   "searchPatients", "filterPatients", "getPatientTests", "addPatientTest"}

\* C29: every application of a public method of ApiService resolves and
\* does not reject, whatever its input and the reply of the backend; a
\* result with success false carries an error that is not empty; and
\* updatePatient sends lab results that are no JSON text wrapped as the
\* object {notes: text}.
C29_MethodsNeverReject ==
  \A i \in 1..Len(calc) :
    calc[i].fn \in PublicMethods =>
      /\ ~calc[i].value.rejected
      /\ (~calc[i].value.success => calc[i].value.error # "")
      /\ (calc[i].fn = "updatePatient"
            /\ calc[i].arg.input.labResults # <<>>
            /\ ~JsonParses(calc[i].arg.input.labResults)
          => calc[i].value.sent.lab_results = NotesObject(calc[i].arg.input.labResults))

====
